---- MODULE Spec2Model ----
(* Action Queue lifecycle engine of the restaurant inventory agent:        *)
(*   pipeline/agent/models.py    action records and auto-approval policy   *)
(*   pipeline/agent/audit.py     append-only audit log persisted to JSON   *)
(*   pipeline/agent/executor.py  action store and status transitions       *)
(*   pipeline/alert_eligibility.py  cooldown filter for risk events         *)
(* Python dicts are modelled as TLA+ functions/records.  The heap of       *)
(* action dicts is the sequence `actions`; a dict is referred to by its    *)
(* index.  create_action draws a fresh uuid4, written as the index of the  *)
(* dict it builds; a copy of a dict (an audit snapshot read back from the  *)
(* log) is another heap object with the same action_id.                    *)
EXTENDS Integers, Sequences, FiniteSets, TLC

VARIABLES
    actions,        \* heap: every action dict, by reference
    action_store,   \* executor._action_store: [key, ref] items, insertion order
    audit_log,      \* audit._audit_log (in-memory list of entries)
    log_file,       \* agent_audit_log.json: [exists, readable, data]
    disk,           \* environment: "ok", "readonly" (writes fail), "down" (open() raises)
    lastCall,       \* the last completed public call and what it returned
    pc,             \* per thread: position inside the handler it runs
    frame,          \* per thread: locals of the handler it runs
    clock,          \* reading of datetime.utcnow()
    audit_lock,     \* audit._lock: the thread that holds it, or "free"
    alert_history,  \* alert_eligibility._alert_history: item_id -> record
    history_file    \* alert_history.json: [exists, readable, data]

vars == <<actions, action_store, audit_log, log_file, disk, lastCall, pc, frame,
          clock, audit_lock, alert_history, history_file>>

\* state of the alert filter and of the audit lock, untouched by the executor
alertVars == <<alert_history, history_file>>

---------------------------------------------------------------------------
(* Bounds of the model                                                     *)

MaxActions == 2      \* at most this many create_action calls
MaxBatch == 2        \* longest list handed to store_actions / auto_approve_and_execute
MaxPct == 12         \* par_change_pct ranges over -MaxPct..MaxPct in the policy check
MaxCalls == 3        \* concurrent model: requests served in all
RaceActions == 1     \* concurrent model: actions in the store when the requests arrive

Threads == {"t1", "t2"}

---------------------------------------------------------------------------
(* models.py: enumerations and the auto-approval policy                    *)

ActionType == {"draft_po", "create_task", "adjust_par",
               "update_delivery_eta", "transfer_stock", "acknowledge_alert"}

OwnerRole == {"Purchasing", "Kitchen", "VendorOps"}

RiskLevel == {"low", "medium", "high"}

ActionStatus == {"proposed", "approved", "executing", "executed",
                 "rolled_back", "rejected"}

\* the rule values True / False / "threshold" are written as strings
AUTO_APPROVE_RULES ==
    [t \in ActionType |->
        CASE t = "acknowledge_alert"   -> "True"
          [] t = "create_task"         -> "True"
          [] t = "draft_po"            -> "True"
          [] t = "adjust_par"          -> "threshold"
          [] t = "update_delivery_eta" -> "False"
          [] t = "transfer_stock"      -> "False"]

PAR_AUTO_APPROVE_MAX_PCT == 10

\* Python's None
None == [None |-> TRUE]

\* dict.get(key, default)
DictGet(d, key, default) == IF key \in DOMAIN d THEN d[key] ELSE default

\* abs()
Abs(n) == IF n < 0 THEN -n ELSE n

\* requires_approval with the threshold test written >= instead of >
requires_approval_ge(action_type, payload) ==
    LET rule == DictGet(AUTO_APPROVE_RULES, action_type, "True")
    IN  IF rule = "True" THEN FALSE
        ELSE IF rule = "False" THEN TRUE
        ELSE IF rule = "threshold" /\ action_type = "adjust_par"
             THEN Abs(DictGet(payload, "par_change_pct", 100)) >= PAR_AUTO_APPROVE_MAX_PCT
             ELSE TRUE

\* requires_approval reading a missing par_change_pct as no change
requires_approval_missing0(action_type, payload) ==
    LET rule == DictGet(AUTO_APPROVE_RULES, action_type, "True")
    IN  IF rule = "True" THEN FALSE
        ELSE IF rule = "False" THEN TRUE
        ELSE IF rule = "threshold" /\ action_type = "adjust_par"
             THEN Abs(DictGet(payload, "par_change_pct", 0)) > PAR_AUTO_APPROVE_MAX_PCT
             ELSE TRUE

\* requires_approval(action_type, payload) -> bool
requires_approval(action_type, payload) ==
    LET rule == DictGet(AUTO_APPROVE_RULES, action_type, "True")
    IN  IF rule = "True" THEN FALSE
        ELSE IF rule = "False" THEN TRUE
        ELSE IF rule = "threshold" /\ action_type = "adjust_par"
             THEN Abs(DictGet(payload, "par_change_pct", 100)) > PAR_AUTO_APPROVE_MAX_PCT
             ELSE TRUE

\* ActionType(action_type) that accepts every value
RaisesValueError_never(action_type) == FALSE

\* ActionType(action_type) raises ValueError for a value outside the enum
RaisesValueError(action_type) == action_type \notin ActionType

\* create_action(...): the dict it returns; id stands for str(uuid.uuid4())
\* and now for datetime.utcnow().  Only defined when ActionType(...) does not
\* raise.  The free-text fields (expected_impact, reason, source_alert_id)
\* are left out of the record.
create_action(id, action_type, payload, owner_role, risk_level, now) ==
    [action_id         |-> id,
     action_type       |-> action_type,
     payload           |-> payload,
     owner_role        |-> owner_role,
     risk_level        |-> risk_level,
     requires_approval |-> requires_approval(action_type, payload),
     status            |-> "proposed",
     created_at        |-> now,
     updated_at        |-> now]

---------------------------------------------------------------------------
(* audit.py: the log lives in memory and in a JSON file; every record()    *)
(* reloads the file, appends, and rewrites the file, under audit._lock.    *)
(* The functional state L is [mem, file]; heap is the action heap, needed  *)
(* because an entry built with action_snapshot=action holds a reference to *)
(* the live dict (live = TRUE, action_snapshot = [ref]) until json.dump    *)
(* serialises it.                                                          *)

NoFile == [exists |-> FALSE, readable |-> TRUE, data |-> <<>>]

\* json.dump of one entry: a live snapshot is written as the dict is now
Serialise(entry, heap) ==
    IF entry.live
    THEN [entry EXCEPT !.action_snapshot = heap[entry.action_snapshot.ref],
                       !.live = FALSE]
    ELSE entry

\* _load that starts every time from an empty list
_load_empty(L, d) == [L EXCEPT !.mem = <<>>]

\* _load that keeps the list in memory when the file cannot be read
_load_keep(L, d) ==
    IF ~L.file.exists THEN L
    ELSE IF d # "down" /\ L.file.readable
         THEN [L EXCEPT !.mem = L.file.data]
         ELSE L

\* _load()
_load(L, d) ==
    IF ~L.file.exists THEN L
    ELSE IF d # "down" /\ L.file.readable
         THEN [L EXCEPT !.mem = L.file.data]
         ELSE [L EXCEPT !.mem = <<>>]

\* _save()
_save(L, d, heap) ==
    IF d = "ok"
    THEN [L EXCEPT !.file = [exists |-> TRUE, readable |-> TRUE,
                             data |-> [i \in 1..Len(L.mem) |-> Serialise(L.mem[i], heap)]]]
    ELSE L

\* record(...): with _lock: _load(); _audit_log.append(entry); _save()
record(L, entry, d, heap) ==
    LET L1 == _load(L, d)
        L2 == [L1 EXCEPT !.mem = Append(L1.mem, entry)]
    IN  _save(L2, d, heap)

\* the entry dict built by record(); now stands for datetime.utcnow()
Entry(now, action_id, event, actor, snapshot, live, before_state, notes) ==
    [timestamp       |-> now,
     action_id       |-> action_id,
     event           |-> event,
     actor           |-> actor,
     action_snapshot |-> snapshot,
     live            |-> live,
     before_state    |-> before_state,
     after_state     |-> None,
     notes           |-> notes]

\* list.sort(key=timestamp, reverse=True): a stable sort, entries with equal
\* timestamps keep their order
RECURSIVE InsertByTimestamp(_, _)
InsertByTimestamp(sorted, e) ==
    IF sorted = <<>> THEN <<e>>
    ELSE IF Head(sorted).timestamp >= e.timestamp
         THEN <<Head(sorted)>> \o InsertByTimestamp(Tail(sorted), e)
         ELSE <<e>> \o sorted

RECURSIVE SortNewestFirst(_)
SortNewestFirst(log) ==
    IF log = <<>> THEN <<>>
    ELSE InsertByTimestamp(SortNewestFirst(SubSeq(log, 1, Len(log) - 1)), log[Len(log)])

\* log[:limit] for limit >= 0
FirstN(log, limit) == SubSeq(log, 1, IF limit < Len(log) THEN limit ELSE Len(log))

\* proposed[-limit:] for limit >= 0; proposed[-0:] is the whole list
LastN(log, limit) ==
    IF limit = 0 \/ limit >= Len(log) THEN log
    ELSE SubSeq(log, Len(log) - limit + 1, Len(log))

\* get_log without the sort: the first entries in append order
get_log_unsorted(L, limit, action_id, event_filter, d, heap) ==
    LET L1 == _load(L, d)
        log == [i \in 1..Len(L1.mem) |-> Serialise(L1.mem[i], heap)]
        by_id == IF action_id # <<>>
                 THEN SelectSeq(log, LAMBDA e : e.action_id = action_id[1])
                 ELSE log
        by_event == IF event_filter # <<>>
                    THEN SelectSeq(by_id, LAMBDA e : e.event = event_filter[1])
                    ELSE by_id
    IN  [L |-> L1, ret |-> FirstN(by_event, limit)]

\* get_log(limit, action_id, event_filter): a filter is <<value>>, or <<>>
\* when the argument is None.  The entries returned are shown as json would
\* print them at return time.
get_log(L, limit, action_id, event_filter, d, heap) ==
    LET L1 == _load(L, d)
        log == [i \in 1..Len(L1.mem) |-> Serialise(L1.mem[i], heap)]
        by_id == IF action_id # <<>>
                 THEN SelectSeq(log, LAMBDA e : e.action_id = action_id[1])
                 ELSE log
        by_event == IF event_filter # <<>>
                    THEN SelectSeq(by_id, LAMBDA e : e.event = event_filter[1])
                    ELSE by_id
    IN  [L |-> L1, ret |-> FirstN(SortNewestFirst(by_event), limit)]

\* get_recent_actions(limit)
get_recent_actions(L, limit, d, heap) ==
    LET L1 == _load(L, d)
        log == [i \in 1..Len(L1.mem) |-> Serialise(L1.mem[i], heap)]
        events == SelectSeq(log, LAMBDA e : e.event = "proposed")
        proposed == [i \in 1..Len(events) |-> events[i].action_snapshot]
    IN  [L |-> L1, ret |-> LastN(proposed, limit)]

---------------------------------------------------------------------------
(* executor.py: store, transition table, _transition and the public API    *)
(* as functions of the state S = [actions, log, now] they read and write.  *)
(* d is the disk state during the call, now the reading of utcnow().       *)

\* _action_store.get(action_id) finds an action
InStore(store, id) == \E i \in 1..Len(store) : store[i].key = id

\* _action_store.get(action_id): the dict stored under the key
Get(store, id) == store[CHOOSE i \in 1..Len(store) : store[i].key = id].ref

\* store_actions(actions): _action_store[a["action_id"]] = a for each a;
\* a key already present keeps its position and gets the new dict
RECURSIVE store_actions(_, _, _)
store_actions(heap, store, refs) ==
    IF refs = <<>> THEN store
    ELSE LET a == Head(refs)
             item == [key |-> heap[a].action_id, ref |-> a]
             stored == IF InStore(store, item.key)
                       THEN [i \in 1..Len(store) |->
                                IF store[i].key = item.key THEN item ELSE store[i]]
                       ELSE Append(store, item)
         IN  store_actions(heap, stored, Tail(refs))

\* the table with an edge that re-opens a rejected action
_VALID_TRANSITIONS_reopen ==
    [s \in {"proposed", "approved", "executing", "executed", "rejected"} |->
        CASE s = "proposed"  -> {"approved", "rejected"}
          [] s = "approved"  -> {"executing"}
          [] s = "executing" -> {"executed", "rolled_back"}
          [] s = "executed"  -> {"rolled_back"}
          [] s = "rejected"  -> {"proposed"}]

_VALID_TRANSITIONS ==
    [s \in {"proposed", "approved", "executing", "executed"} |->
        CASE s = "proposed"  -> {"approved", "rejected"}
          [] s = "approved"  -> {"executing"}
          [] s = "executing" -> {"executed", "rolled_back"}
          [] s = "executed"  -> {"rolled_back"}]

\* allowed = _VALID_TRANSITIONS.get(current, set())
Allowed(current) == DictGet(_VALID_TRANSITIONS, current, {})

\* notes=f"Invalid transition: {current} -> {new_status}. {notes}"
InvalidNotes(current, new_status, notes) ==
    <<"Invalid transition", current, new_status>> \o notes

\* _transition without the test against the table
_transition_unguarded(S, ref, new_status, actor, notes, d) ==
    LET action == S.actions[ref]
        after == [action EXCEPT !.status = new_status, !.updated_at = S.now]
        heap == [S.actions EXCEPT ![ref] = after]
    IN  [ok |-> TRUE,
         S  |-> [S EXCEPT !.actions = heap,
                          !.log = record(S.log,
                                         Entry(S.now, action.action_id, new_status, actor,
                                               after, FALSE, action, notes),
                                         d, heap)]]

\* _transition stamping created_at along with updated_at
_transition_rebuild(S, ref, new_status, actor, notes, d) ==
    LET action == S.actions[ref]
        current == action.status
    IN  IF new_status \notin Allowed(current)
        THEN [ok |-> FALSE,
              S  |-> [S EXCEPT !.log =
                        record(S.log,
                               Entry(S.now, action.action_id, "error", actor,
                                     [ref |-> ref], TRUE, None,
                                     InvalidNotes(current, new_status, notes)),
                               d, S.actions)]]
        ELSE LET before_snapshot == action
                 after == [action EXCEPT !.status = new_status,
                                         !.updated_at = S.now,
                                         !.created_at = S.now]
                 heap == [S.actions EXCEPT ![ref] = after]
             IN  [ok |-> TRUE,
                  S  |-> [S EXCEPT !.actions = heap,
                                   !.log = record(S.log,
                                                  Entry(S.now, action.action_id, new_status,
                                                        actor, after, FALSE,
                                                        before_snapshot, notes),
                                                  d, heap)]]

\* _transition taking the snapshot for the log before it sets the status
_transition_stale(S, ref, new_status, actor, notes, d) ==
    LET action == S.actions[ref]
        current == action.status
    IN  IF new_status \notin Allowed(current)
        THEN [ok |-> FALSE,
              S  |-> [S EXCEPT !.log =
                        record(S.log,
                               Entry(S.now, action.action_id, "error", actor,
                                     [ref |-> ref], TRUE, None,
                                     InvalidNotes(current, new_status, notes)),
                               d, S.actions)]]
        ELSE LET before_snapshot == action
                 after == [action EXCEPT !.status = new_status, !.updated_at = S.now]
                 heap == [S.actions EXCEPT ![ref] = after]
             IN  [ok |-> TRUE,
                  S  |-> [S EXCEPT !.actions = heap,
                                   !.log = record(S.log,
                                                  Entry(S.now, action.action_id, new_status,
                                                        actor, before_snapshot, FALSE,
                                                        before_snapshot, notes),
                                                  d, heap)]]

\* _transition(action, new_status, actor, notes) -> bool
_transition(S, ref, new_status, actor, notes, d) ==
    LET action == S.actions[ref]
        current == action.status
    IN  IF new_status \notin Allowed(current)
        THEN [ok |-> FALSE,
              S  |-> [S EXCEPT !.log =
                        record(S.log,
                               Entry(S.now, action.action_id, "error", actor,
                                     [ref |-> ref], TRUE, None,
                                     InvalidNotes(current, new_status, notes)),
                               d, S.actions)]]
        ELSE LET before_snapshot == action
                 after == [action EXCEPT !.status = new_status, !.updated_at = S.now]
                 heap == [S.actions EXCEPT ![ref] = after]
             IN  [ok |-> TRUE,
                  S  |-> [S EXCEPT !.actions = heap,
                                   !.log = record(S.log,
                                                  Entry(S.now, action.action_id, new_status,
                                                        actor, after, FALSE,
                                                        before_snapshot, notes),
                                                  d, heap)]]

\* the result dicts of the public API
NoError == [kind |-> "none", status |-> ""]

NotFound == [success |-> FALSE, error |-> [kind |-> "not_found", status |-> ""],
             exec_result |-> None]

\* the invalid-state result with the success flag set
InvalidState_success(status) ==
    [success |-> TRUE, error |-> [kind |-> "invalid_state", status |-> status],
     exec_result |-> None]

InvalidState(status) ==
    [success |-> FALSE, error |-> [kind |-> "invalid_state", status |-> status],
     exec_result |-> None]

Result(ok) == [success |-> ok, error |-> NoError, exec_result |-> None]

\* approve_action looking the id up among all created dicts, not in the store
approve_action_heap(S, store, id, actor, d) ==
    IF id \notin DOMAIN S.actions THEN [S |-> S, ret |-> NotFound]
    ELSE IF S.actions[id].status # "proposed"
         THEN [S |-> S, ret |-> InvalidState(S.actions[id].status)]
         ELSE LET t == _transition(S, id, "approved", actor, <<"">>, d)
              IN  [S |-> t.S, ret |-> Result(t.ok)]

\* approve_action that approves whatever the status is
approve_action_again(S, store, id, actor, d) ==
    IF ~InStore(store, id) THEN [S |-> S, ret |-> NotFound]
    ELSE LET action == Get(store, id)
             t == _transition_unguarded(S, action, "approved", actor, <<"">>, d)
         IN  [S |-> t.S, ret |-> Result(t.ok)]

\* approve_action(action_id, actor="user")
approve_action(S, store, id, actor, d) ==
    IF ~InStore(store, id) THEN [S |-> S, ret |-> NotFound]
    ELSE LET action == Get(store, id)
         IN  IF S.actions[action].status # "proposed"
             THEN [S |-> S, ret |-> InvalidState(S.actions[action].status)]
             ELSE LET t == _transition(S, action, "approved", actor, <<"">>, d)
                  IN  [S |-> t.S, ret |-> Result(t.ok)]

\* reject_action(action_id, actor="user", reason="")
reject_action(S, store, id, actor, reason, d) ==
    IF ~InStore(store, id) THEN [S |-> S, ret |-> NotFound]
    ELSE LET action == Get(store, id)
         IN  IF S.actions[action].status # "proposed"
             THEN [S |-> S, ret |-> InvalidState(S.actions[action].status)]
             ELSE LET t == _transition(S, action, "rejected", actor, <<reason>>, d)
                  IN  [S |-> t.S, ret |-> Result(t.ok)]

\* _simulate_execution reporting a failed operation
_simulate_execution_failed(action) ==
    [success |-> FALSE,
     result  |-> [message |-> <<action.action_type, action.action_id>>,
                  quantity |-> DictGet(action.payload, "quantity", 0),
                  par_change_pct |-> DictGet(action.payload, "par_change_pct", 0)]]

\* _simulate_execution(action): result_map.get(action_type, default);
\* every branch reports success
_simulate_execution(action) ==
    [success |-> TRUE,
     result  |-> [message |-> <<action.action_type, action.action_id>>,
                  quantity |-> DictGet(action.payload, "quantity", 0),
                  par_change_pct |-> DictGet(action.payload, "par_change_pct", 0)]]

\* execute_action without the test that the action is approved
execute_action_unchecked(S, store, id, actor, d) ==
    IF ~InStore(store, id) THEN [S |-> S, ret |-> NotFound]
    ELSE LET action == Get(store, id)
             t1 == _transition(S, action, "executing", actor, <<"">>, d)
             exec_result == _simulate_execution(t1.S.actions[action])
             t2 == IF exec_result.success
                   THEN _transition(t1.S, action, "executed", actor,
                                    <<"json", exec_result.result>>, d)
                   ELSE _transition(t1.S, action, "rolled_back", actor,
                                    <<"Execution failed", "unknown">>, d)
         IN  [S |-> t2.S,
              ret |-> [success |-> exec_result.success, error |-> NoError,
                       exec_result |-> exec_result]]

\* execute_action that stops after marking the action as executing
execute_action_halfway(S, store, id, actor, d) ==
    IF ~InStore(store, id) THEN [S |-> S, ret |-> NotFound]
    ELSE LET action == Get(store, id)
         IN  IF S.actions[action].status # "approved"
             THEN [S |-> S, ret |-> InvalidState(S.actions[action].status)]
             ELSE LET t1 == _transition(S, action, "executing", actor, <<"">>, d)
                      exec_result == _simulate_execution(t1.S.actions[action])
                  IN  [S |-> t1.S,
                       ret |-> [success |-> exec_result.success, error |-> NoError,
                                exec_result |-> exec_result]]

\* execute_action(action_id, actor="system")
execute_action(S, store, id, actor, d) ==
    IF ~InStore(store, id) THEN [S |-> S, ret |-> NotFound]
    ELSE LET action == Get(store, id)
         IN  IF S.actions[action].status # "approved"
             THEN [S |-> S, ret |-> InvalidState(S.actions[action].status)]
             ELSE LET t1 == _transition(S, action, "executing", actor, <<"">>, d)
                      exec_result == _simulate_execution(t1.S.actions[action])
                      t2 == IF exec_result.success
                            THEN _transition(t1.S, action, "executed", actor,
                                             <<"json", exec_result.result>>, d)
                            ELSE _transition(t1.S, action, "rolled_back", actor,
                                             <<"Execution failed", "unknown">>, d)
                  IN  [S |-> t2.S,
                       ret |-> [success |-> exec_result.success, error |-> NoError,
                                exec_result |-> exec_result]]

\* rollback_action that accepts an executed action only
rollback_action_executed(S, store, id, actor, reason, d) ==
    IF ~InStore(store, id) THEN [S |-> S, ret |-> NotFound]
    ELSE LET action == Get(store, id)
         IN  IF S.actions[action].status # "executed"
             THEN [S |-> S, ret |-> InvalidState(S.actions[action].status)]
             ELSE LET t == _transition(S, action, "rolled_back", actor, <<reason>>, d)
                  IN  [S |-> t.S, ret |-> Result(t.ok)]

\* rollback_action(action_id, actor="user", reason="")
rollback_action(S, store, id, actor, reason, d) ==
    IF ~InStore(store, id) THEN [S |-> S, ret |-> NotFound]
    ELSE LET action == Get(store, id)
         IN  IF S.actions[action].status \notin {"executing", "executed"}
             THEN [S |-> S, ret |-> InvalidState(S.actions[action].status)]
             ELSE LET t == _transition(S, action, "rolled_back", actor, <<reason>>, d)
                  IN  [S |-> t.S, ret |-> Result(t.ok)]

\* auto_approve_and_execute(actions, actor="auto-approve"): the for loop,
\* refs are the action dicts of the input list still to be processed
RECURSIVE AutoLoop(_, _, _, _, _, _, _)
\* the loop without the requires_approval test
AutoLoop_all(S, store, refs, actor, d, auto_processed, needs_review) ==
    IF refs = <<>>
    THEN [S |-> S,
          ret |-> [auto_processed |-> auto_processed,
                   needs_review |-> needs_review,
                   summary |-> <<Len(auto_processed), Len(needs_review)>>]]
    ELSE LET action == Head(refs)
             a == approve_action(S, store, S.actions[action].action_id, actor, d)
         IN  IF a.ret.success
             THEN LET e == execute_action(a.S, store, S.actions[action].action_id, actor, d)
                  IN  AutoLoop(e.S, store, Tail(refs), actor, d,
                               Append(auto_processed,
                                      [action_id |-> e.S.actions[action].action_id,
                                       action_type |-> e.S.actions[action].action_type,
                                       status |-> e.S.actions[action].status,
                                       exec_success |-> e.ret.success]),
                               needs_review)
             ELSE AutoLoop(a.S, store, Tail(refs), actor, d,
                           auto_processed, Append(needs_review, action))

\* the loop leaving at the first approval that fails
AutoLoop_stop(S, store, refs, actor, d, auto_processed, needs_review) ==
    IF refs = <<>>
    THEN [S |-> S,
          ret |-> [auto_processed |-> auto_processed,
                   needs_review |-> needs_review,
                   summary |-> <<Len(auto_processed), Len(needs_review)>>]]
    ELSE LET action == Head(refs)
         IN  IF ~S.actions[action].requires_approval
             THEN LET a == approve_action(S, store, S.actions[action].action_id, actor, d)
                  IN  IF a.ret.success
                      THEN LET e == execute_action(a.S, store,
                                                   S.actions[action].action_id, actor, d)
                           IN  AutoLoop(e.S, store, Tail(refs), actor, d,
                                        Append(auto_processed,
                                               [action_id |-> e.S.actions[action].action_id,
                                                action_type |-> e.S.actions[action].action_type,
                                                status |-> e.S.actions[action].status,
                                                exec_success |-> e.ret.success]),
                                        needs_review)
                      ELSE [S |-> a.S,
                            ret |-> [auto_processed |-> auto_processed,
                                     needs_review |-> Append(needs_review, action),
                                     summary |-> <<Len(auto_processed),
                                                   Len(needs_review) + 1>>]]
             ELSE AutoLoop(S, store, Tail(refs), actor, d,
                           auto_processed, Append(needs_review, action))

\* the loop without the else branch of the approval test
AutoLoop_drop(S, store, refs, actor, d, auto_processed, needs_review) ==
    IF refs = <<>>
    THEN [S |-> S,
          ret |-> [auto_processed |-> auto_processed,
                   needs_review |-> needs_review,
                   summary |-> <<Len(auto_processed), Len(needs_review)>>]]
    ELSE LET action == Head(refs)
         IN  IF ~S.actions[action].requires_approval
             THEN LET a == approve_action(S, store, S.actions[action].action_id, actor, d)
                  IN  IF a.ret.success
                      THEN LET e == execute_action(a.S, store,
                                                   S.actions[action].action_id, actor, d)
                           IN  AutoLoop(e.S, store, Tail(refs), actor, d,
                                        Append(auto_processed,
                                               [action_id |-> e.S.actions[action].action_id,
                                                action_type |-> e.S.actions[action].action_type,
                                                status |-> e.S.actions[action].status,
                                                exec_success |-> e.ret.success]),
                                        needs_review)
                      ELSE AutoLoop(a.S, store, Tail(refs), actor, d,
                                    auto_processed, needs_review)
             ELSE AutoLoop(S, store, Tail(refs), actor, d,
                           auto_processed, Append(needs_review, action))

AutoLoop(S, store, refs, actor, d, auto_processed, needs_review) ==
    IF refs = <<>>
    THEN [S |-> S,
          ret |-> [auto_processed |-> auto_processed,
                   needs_review |-> needs_review,
                   summary |-> <<Len(auto_processed), Len(needs_review)>>]]
    ELSE LET action == Head(refs)
         IN  IF ~S.actions[action].requires_approval
             THEN LET a == approve_action(S, store, S.actions[action].action_id, actor, d)
                  IN  IF a.ret.success
                      THEN LET e == execute_action(a.S, store,
                                                   S.actions[action].action_id, actor, d)
                           IN  AutoLoop(e.S, store, Tail(refs), actor, d,
                                        Append(auto_processed,
                                               [action_id |-> e.S.actions[action].action_id,
                                                action_type |-> e.S.actions[action].action_type,
                                                status |-> e.S.actions[action].status,
                                                exec_success |-> e.ret.success]),
                                        needs_review)
                      ELSE AutoLoop(a.S, store, Tail(refs), actor, d,
                                    auto_processed, Append(needs_review, action))
             ELSE AutoLoop(S, store, Tail(refs), actor, d,
                           auto_processed, Append(needs_review, action))

auto_approve_and_execute(S, store, refs, actor, d) ==
    AutoLoop(S, store, refs, actor, d, <<>>, <<>>)

---------------------------------------------------------------------------
(* Inputs of the calls                                                     *)

\* create_action argument tuples the callers issue; the last one names a
\* type outside the enumeration
Proposals ==
    { [action_type |-> "draft_po", payload |-> [quantity |-> 50],
       owner_role |-> "Purchasing", risk_level |-> "low"],
      [action_type |-> "adjust_par", payload |-> [par_change_pct |-> 25],
       owner_role |-> "Kitchen", risk_level |-> "medium"],
      [action_type |-> "send_email", payload |-> [quantity |-> 1],
       owner_role |-> "Kitchen", risk_level |-> "low"] }

\* action ids a caller may name: those created so far and unknown ones
ActionIds == 1..MaxActions

\* the action dicts on the heap
Created == 1..Len(actions)

\* lists of action dicts of length 0..MaxBatch
RECURSIVE ListsUpTo(_, _)
ListsUpTo(S, n) ==
    IF n = 0 THEN {<<>>}
    ELSE LET shorter == ListsUpTo(S, n - 1)
         IN  shorter \cup {Append(l, x) : l \in shorter, x \in S}

Reasons == {"duplicate"}

\* the state the executor functions work on
State == [actions |-> actions, log |-> [mem |-> audit_log, file |-> log_file],
          now |-> clock]

\* assignment of the state a call returns
Commit(S) ==
    /\ actions' = S.actions
    /\ audit_log' = S.log.mem
    /\ log_file' = S.log.file

Call(op, id, ids, ret) == [op |-> op, id |-> id, ids |-> ids, ret |-> ret]

\* locals of a thread that runs no handler; done lists its completed calls
IdleFrame(done) ==
    [op |-> "none", id |-> 0, reason |-> "", actor |-> "", new_status |-> "",
     phase |-> 0, current |-> "", before |-> None, entry |-> None, done |-> done]

---------------------------------------------------------------------------
(* The sequential system: every call completes before the next begins      *)

Init ==
    /\ actions = <<>>
    /\ action_store = <<>>
    /\ audit_log = <<>>
    /\ log_file = NoFile
    /\ disk = "ok"
    /\ lastCall = Call("init", 0, <<>>, Result(TRUE))
    /\ pc = [t \in Threads |-> "idle"]
    /\ frame = [t \in Threads |-> IdleFrame(<<>>)]
    /\ clock = 0
    /\ audit_lock = "free"
    /\ alert_history = <<>>
    /\ history_file = NoFile

\* a caller builds an action with create_action (planner.py, copilot.py)
CreateAction ==
    /\ Len(actions) < MaxActions
    /\ \E p \in Proposals :
         IF RaisesValueError(p.action_type)
         THEN /\ lastCall' = Call("create_action", 0, <<>>,
                                   [raised |-> TRUE, asked |-> p.action_type])
              /\ UNCHANGED actions
         ELSE /\ actions' = Append(actions,
                                   create_action(Len(actions) + 1, p.action_type, p.payload,
                                                 p.owner_role, p.risk_level, clock))
              /\ lastCall' = Call("create_action", Len(actions) + 1, <<>>,
                                   [raised |-> FALSE, asked |-> p.action_type])
    /\ UNCHANGED <<action_store, audit_log, log_file, disk, pc, frame,
                   clock, audit_lock, alertVars>>

StoreActions ==
    /\ \E ids \in ListsUpTo(Created, MaxBatch) :
         /\ action_store' = store_actions(actions, action_store, ids)
         /\ lastCall' = Call("store_actions", 0, ids, Result(TRUE))
    /\ UNCHANGED <<actions, audit_log, log_file, disk, pc, frame,
                   clock, audit_lock, alertVars>>

ApproveAction ==
    /\ \E id \in ActionIds :
         LET r == approve_action(State, action_store, id, "user", disk)
         IN  /\ Commit(r.S)
             /\ lastCall' = Call("approve_action", id, <<>>, r.ret)
    /\ UNCHANGED <<action_store, disk, pc, frame, clock, audit_lock, alertVars>>

RejectAction ==
    /\ \E id \in ActionIds, reason \in Reasons :
         LET r == reject_action(State, action_store, id, "user", reason, disk)
         IN  /\ Commit(r.S)
             /\ lastCall' = Call("reject_action", id, <<>>, r.ret)
    /\ UNCHANGED <<action_store, disk, pc, frame, clock, audit_lock, alertVars>>

ExecuteAction ==
    /\ \E id \in ActionIds :
         LET r == execute_action(State, action_store, id, "system", disk)
         IN  /\ Commit(r.S)
             /\ lastCall' = Call("execute_action", id, <<>>, r.ret)
    /\ UNCHANGED <<action_store, disk, pc, frame, clock, audit_lock, alertVars>>

RollbackAction ==
    /\ \E id \in ActionIds, reason \in Reasons :
         LET r == rollback_action(State, action_store, id, "user", reason, disk)
         IN  /\ Commit(r.S)
             /\ lastCall' = Call("rollback_action", id, <<>>, r.ret)
    /\ UNCHANGED <<action_store, disk, pc, frame, clock, audit_lock, alertVars>>

AutoApproveAndExecute ==
    /\ \E ids \in ListsUpTo(Created, MaxBatch) :
         LET r == auto_approve_and_execute(State, action_store, ids, "auto-approve", disk)
         IN  /\ Commit(r.S)
             /\ lastCall' = Call("auto_approve_and_execute", 0, ids, r.ret)
    /\ UNCHANGED <<action_store, disk, pc, frame, clock, audit_lock, alertVars>>

Next ==
    \/ CreateAction
    \/ StoreActions
    \/ ApproveAction
    \/ RejectAction
    \/ ExecuteAction
    \/ RollbackAction
    \/ AutoApproveAndExecute

Spec == Init /\ [][Next]_vars

---------------------------------------------------------------------------
(* The concurrent system: request threads (Flask serves each request on    *)
(* its own thread) run the handlers of executor.py; a step is one access   *)
(* to the shared action dict or one audit.record, which audit._lock makes  *)
(* atomic.  executor.py itself takes no lock.                              *)

ThreadOps == {"approve_action", "reject_action", "execute_action", "rollback_action"}

\* the status a handler requires and the one it moves to
Requires(op) ==
    CASE op = "approve_action"  -> {"proposed"}
      [] op = "reject_action"   -> {"proposed"}
      [] op = "execute_action"  -> {"approved"}
      [] op = "rollback_action" -> {"executing", "executed"}

Target(op) ==
    CASE op = "approve_action"  -> "approved"
      [] op = "reject_action"   -> "rejected"
      [] op = "execute_action"  -> "executing"
      [] op = "rollback_action" -> "rolled_back"

DefaultActor(op) == IF op = "execute_action" THEN "system" ELSE "user"

\* the handler returns ret: the call joins the thread's completed calls
Return(t, ret) ==
    /\ pc' = [pc EXCEPT ![t] = "idle"]
    /\ frame' = [frame EXCEPT ![t] =
                    IdleFrame(Append(frame[t].done,
                                     [op |-> frame[t].op, id |-> frame[t].id, ret |-> ret]))]

\* requests received so far: completed calls and calls in progress
RECURSIVE SumOver(_, _)
SumOver(f, S) ==
    IF S = {} THEN 0
    ELSE LET x == CHOOSE y \in S : TRUE
         IN  f[x] + SumOver(f, S \ {x})

Requests ==
    SumOver([t \in Threads |-> Len(frame[t].done) + (IF pc[t] = "idle" THEN 0 ELSE 1)],
            Threads)

\* a request arrives: the thread enters a handler
Begin(t) ==
    /\ pc[t] = "idle"
    /\ Requests < MaxCalls
    /\ \E op \in ThreadOps, id \in Created, reason \in Reasons :
         frame' = [frame EXCEPT ![t] =
                      [op |-> op, id |-> id,
                       reason |-> IF op \in {"reject_action", "rollback_action"}
                                  THEN reason ELSE "",
                       actor |-> DefaultActor(op), new_status |-> Target(op),
                       phase |-> 1, current |-> "", before |-> None, entry |-> None,
                       done |-> frame[t].done]]
    /\ pc' = [pc EXCEPT ![t] = "check"]
    /\ UNCHANGED <<actions, action_store, audit_log, log_file, disk, lastCall,
                   clock, audit_lock, alertVars>>

\* action = _action_store.get(action_id); the not-found and status checks
\* at the head of approve_action / reject_action / execute_action / rollback_action
Check(t) ==
    /\ pc[t] = "check"
    /\ LET id == frame[t].id
       IN  IF ~InStore(action_store, id) THEN Return(t, NotFound)
           ELSE IF actions[Get(action_store, id)].status \notin Requires(frame[t].op)
                THEN Return(t, InvalidState(actions[Get(action_store, id)].status))
                ELSE /\ pc' = [pc EXCEPT ![t] = "tr_read"]
                     /\ UNCHANGED frame
    /\ UNCHANGED <<actions, action_store, audit_log, log_file, disk, lastCall,
                   clock, audit_lock, alertVars>>

\* the dict the handler of thread t got from _action_store.get(action_id)
ActionOf(t) == Get(action_store, frame[t].id)

\* what follows a _transition that returned ok
AfterTransition(t, ok) ==
    IF frame[t].op = "execute_action"
    THEN IF frame[t].phase = 1
         THEN \* the result is dropped; exec_result = _simulate_execution(action)
              LET exec_result == _simulate_execution(actions[ActionOf(t)])
              IN  /\ pc' = [pc EXCEPT ![t] = "tr_read"]
                  /\ frame' = [frame EXCEPT ![t].phase = 2,
                                            ![t].new_status =
                                                IF exec_result.success THEN "executed"
                                                ELSE "rolled_back",
                                            ![t].current = "",
                                            ![t].before = None]
         ELSE LET exec_result == _simulate_execution(actions[ActionOf(t)])
              IN  Return(t, [success |-> exec_result.success, error |-> NoError,
                             exec_result |-> exec_result])
    ELSE Return(t, Result(ok))

\* _transition: current = action.get("status"); the test against allowed
TrRead(t) ==
    /\ pc[t] = "tr_read"
    /\ LET current == actions[ActionOf(t)].status
       IN  /\ pc' = [pc EXCEPT ![t] = IF frame[t].new_status \notin Allowed(current)
                                      THEN "tr_error" ELSE "tr_copy"]
           /\ frame' = [frame EXCEPT ![t].current = current]
    /\ UNCHANGED <<actions, action_store, audit_log, log_file, disk, lastCall,
                   clock, audit_lock, alertVars>>

\* _transition: before_snapshot = dict(action)
TrCopy(t) ==
    /\ pc[t] = "tr_copy"
    /\ frame' = [frame EXCEPT ![t].before = actions[ActionOf(t)]]
    /\ pc' = [pc EXCEPT ![t] = "tr_write"]
    /\ UNCHANGED <<actions, action_store, audit_log, log_file, disk, lastCall,
                   clock, audit_lock, alertVars>>

\* _transition: audit.record(event="error", action_snapshot=action, ...); return False
TrError(t) ==
    /\ pc[t] = "tr_error"
    /\ LET id == frame[t].id
           notes == IF frame[t].phase = 2 THEN <<"json">> ELSE <<frame[t].reason>>
           L == record([mem |-> audit_log, file |-> log_file],
                       Entry(clock, id, "error", frame[t].actor,
                             [ref |-> ActionOf(t)], TRUE, None,
                             InvalidNotes(frame[t].current, frame[t].new_status, notes)),
                       disk, actions)
       IN  /\ audit_log' = L.mem
           /\ log_file' = L.file
    /\ AfterTransition(t, FALSE)
    /\ UNCHANGED <<actions, action_store, disk, lastCall, clock, audit_lock, alertVars>>

\* _transition: action["status"] = new_status; action["updated_at"] = utcnow()
TrWrite(t) ==
    /\ pc[t] = "tr_write"
    /\ actions' = [actions EXCEPT ![ActionOf(t)].status = frame[t].new_status,
                                  ![ActionOf(t)].updated_at = clock]
    /\ pc' = [pc EXCEPT ![t] = "tr_record"]
    /\ UNCHANGED <<action_store, audit_log, log_file, disk, lastCall, frame,
                   clock, audit_lock, alertVars>>

\* _transition: audit.record(event=new_status, action_snapshot=dict(action),
\* before_state=before_snapshot, ...); return True
TrRecord(t) ==
    /\ pc[t] = "tr_record"
    /\ LET id == frame[t].id
           notes == IF frame[t].phase = 2
                    THEN <<"json", _simulate_execution(actions[ActionOf(t)]).result>>
                    ELSE <<frame[t].reason>>
           L == record([mem |-> audit_log, file |-> log_file],
                       Entry(clock, id, frame[t].new_status, frame[t].actor,
                             actions[ActionOf(t)], FALSE, frame[t].before, notes),
                       disk, actions)
       IN  /\ audit_log' = L.mem
           /\ log_file' = L.file
    /\ AfterTransition(t, TRUE)
    /\ UNCHANGED <<actions, action_store, disk, lastCall, clock, audit_lock, alertVars>>

ThreadStep ==
    \E t \in Threads :
        \/ Begin(t)
        \/ Check(t)
        \/ TrRead(t)
        \/ TrCopy(t)
        \/ TrError(t)
        \/ TrWrite(t)
        \/ TrRecord(t)

\* the requests arrive when RaceActions proposed actions are in the store
\* (a state CreateAction and StoreActions reach from Init)
InitConc ==
    /\ \E ps \in [1..RaceActions -> { q \in Proposals : ~RaisesValueError(q.action_type) }] :
         actions = [i \in 1..RaceActions |->
                       create_action(i, ps[i].action_type, ps[i].payload,
                                     ps[i].owner_role, ps[i].risk_level, 0)]
    /\ action_store = [i \in 1..RaceActions |-> [key |-> i, ref |-> i]]
    /\ audit_log = <<>>
    /\ log_file = NoFile
    /\ disk = "ok"
    /\ lastCall = Call("store_actions", 0, [i \in 1..RaceActions |-> i], Result(TRUE))
    /\ pc = [t \in Threads |-> "idle"]
    /\ frame = [t \in Threads |-> IdleFrame(<<>>)]
    /\ clock = 0
    /\ audit_lock = "free"
    /\ alert_history = <<>>
    /\ history_file = NoFile

NextConc == ThreadStep

SpecConc == InitConc /\ [][NextConc]_vars

---------------------------------------------------------------------------
(* The policy check: create_action applied to every action type and to     *)
(* payloads with and without par_change_pct                                *)

PolicyPayloads ==
    {[par_change_pct |-> n] : n \in (-MaxPct)..MaxPct}
        \cup {[quantity |-> 50], [par_change_pct |-> 25, quantity |-> 50]}

\* action_type arguments outside the enumeration: an unknown name, the
\* name of an enum member instead of its value, the empty string
OtherTypes == {"send_email", "DRAFT_PO", ""}

PolicyCreate ==
    /\ actions = <<>>
    /\ \E t \in ActionType \cup OtherTypes, payload \in PolicyPayloads,
          o \in {"Purchasing"}, r \in {"low"} :
         IF RaisesValueError(t)
         THEN /\ lastCall' = Call("create_action", 0, <<>>, [raised |-> TRUE, asked |-> t])
              /\ UNCHANGED actions
         ELSE /\ actions' = <<create_action(1, t, payload, o, r, clock)>>
              /\ lastCall' = Call("create_action", 1, <<>>, [raised |-> FALSE, asked |-> t])
    /\ UNCHANGED <<action_store, audit_log, log_file, disk, pc, frame,
                   clock, audit_lock, alertVars>>

SpecPolicy == Init /\ [][PolicyCreate]_vars

---------------------------------------------------------------------------
(* The audit log in use: the planner records each proposal with the live   *)
(* action dict as snapshot, the executor records transitions, readers call *)
(* get_log and get_recent_actions, and the clock advances between calls.   *)

MaxClock == 2        \* readings of utcnow() range over 0..MaxClock
MaxLog == 3          \* the planner records while the log is shorter than this
MaxLimit == 2        \* limit arguments range over 0..MaxLimit

\* time passes between two calls
Tick ==
    /\ clock < MaxClock
    /\ clock' = clock + 1
    /\ UNCHANGED <<actions, action_store, audit_log, log_file, disk, lastCall, pc, frame,
                   audit_lock, alertVars>>

\* planner.generate_plan: audit.record(action_id, event="proposed",
\* action_snapshot=action, actor="agent-planner", notes=...)
RecordProposed ==
    /\ Len(audit_log) < MaxLog
    /\ Len(log_file.data) < MaxLog
    /\ \E ref \in Created :
         LET entry == Entry(clock, actions[ref].action_id, "proposed", "agent-planner",
                            [ref |-> ref], TRUE, None, <<"Source">>)
             L == record([mem |-> audit_log, file |-> log_file], entry, disk, actions)
         IN  /\ audit_log' = L.mem
             /\ log_file' = L.file
             /\ lastCall' = Call("record", actions[ref].action_id, <<>>,
                                 Serialise(entry, actions))
    /\ UNCHANGED <<actions, action_store, disk, pc, frame, clock, audit_lock, alertVars>>

\* the filters a reader may pass to get_log; <<>> is no filter
IdFilters == {<<>>} \cup {<<id>> : id \in ActionIds}

EventFilters == {<<>>, <<"proposed">>, <<"approved">>}

\* a reader calls audit.get_log (the /agent/audit route)
GetLog ==
    /\ \E limit \in 0..MaxLimit, action_id \in IdFilters, event_filter \in EventFilters :
         LET r == get_log([mem |-> audit_log, file |-> log_file], limit, action_id,
                          event_filter, disk, actions)
         IN  /\ audit_log' = r.L.mem
             /\ log_file' = r.L.file
             /\ lastCall' = Call("get_log", 0, <<limit, action_id, event_filter>>, r.ret)
    /\ UNCHANGED <<actions, action_store, disk, pc, frame, clock, audit_lock, alertVars>>

\* the planner calls audit.get_recent_actions
GetRecentActions ==
    /\ \E limit \in 0..MaxLimit :
         LET r == get_recent_actions([mem |-> audit_log, file |-> log_file], limit,
                                     disk, actions)
         IN  /\ audit_log' = r.L.mem
             /\ log_file' = r.L.file
             /\ lastCall' = Call("get_recent_actions", 0, <<limit>>, r.ret)
    /\ UNCHANGED <<actions, action_store, disk, pc, frame, clock, audit_lock, alertVars>>

NextAudit ==
    \/ Tick
    \/ RecordProposed
    \/ GetLog
    \/ GetRecentActions
    \/ ApproveAction
    \/ RejectAction
    \/ ExecuteAction
    \/ RollbackAction
    \/ AutoApproveAndExecute

\* starts with RaceActions proposed actions in the store
SpecAudit == InitConc /\ [][NextAudit]_vars

---------------------------------------------------------------------------
(* audit.record under concurrent callers: the entry is built outside the   *)
(* lock, then `with _lock:` encloses _load(), the append and _save().      *)

\* record(): entry = {...}; the notes tell the calls apart
RecBegin(t) ==
    /\ pc[t] = "idle"
    /\ Requests < MaxCalls
    /\ \E ref \in Created :
         frame' = [frame EXCEPT ![t] =
                      [op |-> "record", id |-> actions[ref].action_id, reason |-> "",
                       actor |-> "agent-planner", new_status |-> "proposed",
                       phase |-> 1, current |-> "", before |-> None,
                       entry |-> Entry(clock, actions[ref].action_id, "proposed",
                                       "agent-planner", [ref |-> ref], TRUE, None,
                                       <<t, Len(frame[t].done) + 1>>),
                       done |-> frame[t].done]]
    /\ pc' = [pc EXCEPT ![t] = "rec_acquire"]
    /\ UNCHANGED <<actions, action_store, audit_log, log_file, disk, lastCall,
                   clock, audit_lock, alertVars>>

\* with _lock: entered without waiting for the lock
RecAcquire_nolock(t) ==
    /\ pc[t] = "rec_acquire"
    /\ audit_lock' = t
    /\ pc' = [pc EXCEPT ![t] = "rec_load"]
    /\ UNCHANGED <<actions, action_store, audit_log, log_file, disk, lastCall, frame,
                   clock, alertVars>>

\* with _lock: blocks until the lock is free
RecAcquire(t) ==
    /\ pc[t] = "rec_acquire"
    /\ audit_lock = "free"
    /\ audit_lock' = t
    /\ pc' = [pc EXCEPT ![t] = "rec_load"]
    /\ UNCHANGED <<actions, action_store, audit_log, log_file, disk, lastCall, frame,
                   clock, alertVars>>

\* _load()
RecLoad(t) ==
    /\ pc[t] = "rec_load"
    /\ audit_log' = _load([mem |-> audit_log, file |-> log_file], disk).mem
    /\ pc' = [pc EXCEPT ![t] = "rec_append"]
    /\ UNCHANGED <<actions, action_store, log_file, disk, lastCall, frame,
                   clock, audit_lock, alertVars>>

\* _audit_log.append(entry)
RecAppend(t) ==
    /\ pc[t] = "rec_append"
    /\ audit_log' = Append(audit_log, frame[t].entry)
    /\ pc' = [pc EXCEPT ![t] = "rec_save"]
    /\ UNCHANGED <<actions, action_store, log_file, disk, lastCall, frame,
                   clock, audit_lock, alertVars>>

\* _save()
RecSave(t) ==
    /\ pc[t] = "rec_save"
    /\ log_file' = _save([mem |-> audit_log, file |-> log_file], disk, actions).file
    /\ pc' = [pc EXCEPT ![t] = "rec_release"]
    /\ UNCHANGED <<actions, action_store, audit_log, disk, lastCall, frame,
                   clock, audit_lock, alertVars>>

\* the with block ends: the lock is released; return entry
RecRelease(t) ==
    /\ pc[t] = "rec_release"
    /\ audit_lock' = "free"
    /\ Return(t, Serialise(frame[t].entry, actions))
    /\ UNCHANGED <<actions, action_store, audit_log, log_file, disk, lastCall,
                   clock, alertVars>>

RecordStep ==
    \E t \in Threads :
        \/ RecBegin(t)
        \/ RecAcquire(t)
        \/ RecLoad(t)
        \/ RecAppend(t)
        \/ RecSave(t)
        \/ RecRelease(t)

NextAuditConc == RecordStep

SpecAuditConc == InitConc /\ [][NextAuditConc]_vars

---------------------------------------------------------------------------
(* Re-registration: store_actions is also handed action dicts that were    *)
(* read back from the audit log (snapshots parsed from the JSON file), so  *)
(* the dict stored under an action_id can be replaced by another dict.     *)

MaxCopies == 1       \* at most this many dicts are read back from the log

\* the dicts an audit entry carries
SnapshotsOf(e) ==
    (IF e.action_snapshot # None THEN {e.action_snapshot} ELSE {})
        \cup (IF e.before_state # None THEN {e.before_state} ELSE {})

\* a caller reads the log (get_log reloads it from the file) and registers
\* one of the snapshots it got: store_actions([snapshot])
ReRegister ==
    /\ Len(actions) < RaceActions + MaxCopies
    /\ \E limit \in {MaxLog} :
         LET r == get_log([mem |-> audit_log, file |-> log_file], limit, <<>>, <<>>,
                          disk, actions)
         IN  /\ r.ret # <<>>
             /\ \E k \in 1..Len(r.ret) : \E snapshot \in SnapshotsOf(r.ret[k]) :
                   /\ actions' = Append(actions, snapshot)
                   /\ action_store' = store_actions(actions', action_store,
                                                    <<Len(actions) + 1>>)
                   /\ lastCall' = Call("store_actions", 0, <<Len(actions) + 1>>,
                                       Result(TRUE))
             /\ audit_log' = r.L.mem
             /\ log_file' = r.L.file
    /\ UNCHANGED <<disk, pc, frame, clock, audit_lock, alertVars>>

NextStore ==
    \/ ReRegister
    \/ StoreActions
    \/ ApproveAction
    \/ RejectAction
    \/ ExecuteAction
    \/ RollbackAction
    \/ AutoApproveAndExecute

\* starts with RaceActions proposed actions in the store
SpecStore == InitConc /\ [][NextStore]_vars

---------------------------------------------------------------------------
(* alert_eligibility.py: the cooldown filter.  _alert_history maps item_id  *)
(* to the record of the last admitted alert; an absent key is <<>>, a      *)
(* present one the one-element tuple of its record.  Confidence is written  *)
(* in hundredths (0.7 is 70), as risk_event_generator rounds it to two      *)
(* decimals.  The functional state H is [mem, file].  json.dump followed by *)
(* json.load gives back an equal dict: keys are strings, values are         *)
(* numbers.                                                                 *)

COOLDOWN_SECONDS == 24 * 60 * 60

MaxEvents == 2       \* longest batch handed to filter_eligible_alerts

Items == {"chicken", "beef"}

Confidences == {70, 90}

DaysUntil == {2, 3}

\* the risk events generate_risk_events builds
RiskEvents ==
    [item_id : Items, confidence : Confidences, days_until : DaysUntil]

\* readings of time.time(): T0, an hour later, the last second of the
\* cooldown, and its end
Times == {0, 3600, COOLDOWN_SECONDS - 1, COOLDOWN_SECONDS}

EmptyHistory == [item \in Items |-> <<>>]

NoHistoryFile == [exists |-> FALSE, readable |-> TRUE, data |-> EmptyHistory]

\* the disk as a call finds it: "ok"; "readonly", open(.., "w") and
\* os.remove raise IOError; "down", every open raises IOError
DiskStates == {"ok", "readonly", "down"}

\* the except clause with pass for _alert_history = {}
_load_history_pass(H, d) ==
    IF ~H.file.exists THEN H
    ELSE IF d # "down" /\ H.file.readable
         THEN [H EXCEPT !.mem = H.file.data]
         ELSE H

\* _load_history(): open raises IOError when the disk is down, json.load
\* raises JSONDecodeError when the file is not readable as JSON
_load_history(H, d) ==
    IF ~H.file.exists THEN H
    ELSE IF d # "down" /\ H.file.readable
         THEN [H EXCEPT !.mem = H.file.data]
         ELSE [H EXCEPT !.mem = EmptyHistory]

\* _save_history()
_save_history(H, d) ==
    IF d = "ok"
    THEN [H EXCEPT !.file = [exists |-> TRUE, readable |-> TRUE, data |-> H.mem]]
    ELSE H

\* reset_history() that clears the dict and leaves the file
reset_history_memory(H, d) == [mem |-> EmptyHistory, file |-> H.file]

\* reset_history(): os.remove raises out of the call when the disk does not
\* take writes, after the dict was cleared
reset_history(H, d) ==
    [mem |-> EmptyHistory,
     file |-> IF H.file.exists /\ d # "ok" THEN H.file ELSE NoHistoryFile]

\* the cooldown test with > for >=
Eligible_late(hist, event, now) ==
    LET prev == hist[event.item_id]
    IN  IF prev = <<>> THEN TRUE
        ELSE \/ now - prev[1].last_alert_ts > COOLDOWN_SECONDS
             \/ event.confidence > prev[1].confidence
             \/ event.days_until < prev[1].days_until

\* the confidence test with >= for >
Eligible_same(hist, event, now) ==
    LET prev == hist[event.item_id]
    IN  IF prev = <<>> THEN TRUE
        ELSE \/ now - prev[1].last_alert_ts >= COOLDOWN_SECONDS
             \/ event.confidence >= prev[1].confidence
             \/ event.days_until < prev[1].days_until

\* body of the first loop: is the event appended to eligible
Eligible(hist, event, now) ==
    LET prev == hist[event.item_id]
    IN  IF prev = <<>> THEN TRUE
        ELSE \/ now - prev[1].last_alert_ts >= COOLDOWN_SECONDS
             \/ event.confidence > prev[1].confidence
             \/ event.days_until < prev[1].days_until

\* the second loop keeping, for each item, its first eligible event
RECURSIVE UpdateHistory_first(_, _, _)
UpdateHistory_first(hist, eligible, now) ==
    IF eligible = <<>> THEN hist
    ELSE LET event == Head(eligible)
             rest == UpdateHistory_first(hist, Tail(eligible), now)
         IN  [rest EXCEPT ![event.item_id] =
                 << [last_alert_ts |-> now,
                     confidence |-> event.confidence,
                     days_until |-> event.days_until] >>]

\* the second loop: each eligible event overwrites the entry of its item
RECURSIVE UpdateHistory(_, _, _)
UpdateHistory(hist, eligible, now) ==
    IF eligible = <<>> THEN hist
    ELSE LET event == Head(eligible)
         IN  UpdateHistory(
                 [hist EXCEPT ![event.item_id] =
                     << [last_alert_ts |-> now,
                         confidence |-> event.confidence,
                         days_until |-> event.days_until] >>],
                 Tail(eligible), now)

\* the second loop run over risk_events instead of eligible
filter_eligible_alerts_all(H, risk_events, now, d) ==
    LET H1 == _load_history(H, d)
        eligible == SelectSeq(risk_events, LAMBDA e : Eligible(H1.mem, e, now))
        H2 == [H1 EXCEPT !.mem = UpdateHistory(H1.mem, risk_events, now)]
    IN  [H |-> _save_history(H2, d), ret |-> eligible]

\* filter_eligible_alerts(risk_events, now)
filter_eligible_alerts(H, risk_events, now, d) ==
    LET H1 == _load_history(H, d)
        eligible == SelectSeq(risk_events, LAMBDA e : Eligible(H1.mem, e, now))
        H2 == [H1 EXCEPT !.mem = UpdateHistory(H1.mem, eligible, now)]
    IN  [H |-> _save_history(H2, d), ret |-> eligible]

EventLists == ListsUpTo(RiskEvents, MaxEvents)

\* the last call of the filter's API, with the admissions so far:
\* last_admitted[item] is the event of that item returned last, and the now
\* of the call that returned it; <<>> if none was returned since the reset
\* wiped names the items whose entries the reset_history call removed, in
\* the record of that call and of the call that follows it
AlertCall(op, events, now, ret, last_admitted, wiped) ==
    [op |-> op, events |-> events, now |-> now, ret |-> ret,
     last_admitted |-> last_admitted, wiped |-> wiped]

NeverAdmitted == [item \in Items |-> <<>>]

\* the returned events of one item, in the order of the returned list
OfItem(events, item) == SelectSeq(events, LAMBDA e : e.item_id = item)

InitAlerts ==
    /\ actions = <<>>
    /\ action_store = <<>>
    /\ audit_log = <<>>
    /\ log_file = NoFile
    /\ disk = "ok"
    /\ lastCall = AlertCall("init", <<>>, 0, <<>>, NeverAdmitted, {})
    /\ pc = [t \in Threads |-> "idle"]
    /\ frame = [t \in Threads |-> IdleFrame(<<>>)]
    /\ clock = 0
    /\ audit_lock = "free"
    /\ alert_history = EmptyHistory
    /\ history_file = NoHistoryFile

\* a call filter_eligible_alerts(risk_events, now) with now among times and
\* risk_events among lists; now is the clock, which never runs backwards
FilterCall(times, lists) ==
    \E now \in times, risk_events \in lists :
        /\ now >= clock
        /\ LET r == filter_eligible_alerts(
                        [mem |-> alert_history, file |-> history_file],
                        risk_events, now, disk)
           IN  /\ alert_history' = r.H.mem
               /\ history_file' = r.H.file
               /\ lastCall' = AlertCall("filter_eligible_alerts", risk_events, now, r.ret,
                                  [item \in Items |->
                                      LET mine == OfItem(r.ret, item)
                                      IN  IF mine = <<>>
                                          THEN lastCall.last_admitted[item]
                                          ELSE << [event |-> mine[Len(mine)],
                                                   at |-> now] >>],
                                  IF lastCall.op = "reset_history"
                                  THEN lastCall.wiped ELSE {})
        /\ clock' = now
        /\ UNCHANGED <<actions, action_store, audit_log, log_file, disk, pc, frame,
                       audit_lock>>

\* app.py calls filter_eligible_alerts(filtered_events)
FilterEligibleAlerts == FilterCall(Times, EventLists)

\* app.py calls reset_history() to force a clean alert cycle
ResetHistory ==
    /\ lastCall.op # "reset_history"
    /\ LET H == reset_history([mem |-> alert_history, file |-> history_file], disk)
       IN  /\ alert_history' = H.mem
           /\ history_file' = H.file
    /\ lastCall' = AlertCall("reset_history", <<>>, clock, <<>>, NeverAdmitted,
                             {item \in Items : alert_history[item] # <<>>})
    /\ UNCHANGED <<actions, action_store, audit_log, log_file, disk, pc, frame,
                   clock, audit_lock>>

NextAlerts ==
    \/ FilterEligibleAlerts
    \/ ResetHistory

SpecAlerts == InitAlerts /\ [][NextAlerts]_vars

---------------------------------------------------------------------------
(* The alert filter on a disk that fails: between calls the disk changes   *)
(* state and the history file may be left unparseable (a write cut short). *)
(* lastCall.op names the last step, calls and changes of the environment.  *)

FaultTimes == {0, 3600}

FaultEvents ==
    { [item_id |-> "chicken", confidence |-> 70, days_until |-> 3],
      [item_id |-> "chicken", confidence |-> 90, days_until |-> 3],
      [item_id |-> "beef", confidence |-> 70, days_until |-> 3] }

FilterOnFailingDisk == FilterCall(FaultTimes, ListsUpTo(FaultEvents, MaxEvents))

DiskChanges ==
    /\ \E d \in DiskStates \ {disk} : disk' = d
    /\ lastCall' = [lastCall EXCEPT !.op = "disk_changes"]
    /\ UNCHANGED <<actions, action_store, audit_log, log_file, pc, frame, clock,
                   audit_lock, alertVars>>

FileCorrupted ==
    /\ history_file.exists
    /\ history_file.readable
    /\ history_file' = [exists |-> TRUE, readable |-> FALSE, data |-> EmptyHistory]
    /\ lastCall' = [lastCall EXCEPT !.op = "file_corrupted"]
    /\ UNCHANGED <<actions, action_store, audit_log, log_file, disk, pc, frame, clock,
                   audit_lock, alert_history>>

NextAlertsFaults ==
    \/ FilterOnFailingDisk
    \/ ResetHistory
    \/ DiskChanges
    \/ FileCorrupted

SpecAlertsFaults == InitAlerts /\ [][NextAlertsFaults]_vars

---------------------------------------------------------------------------
(* Claims                                                                  *)

StatusOf(id) == actions[id].status

IsStored(id) == InStore(action_store, id)

\* the adjacency table as the specification states it
AdjacencyTable ==
    { <<"proposed", "approved">>, <<"proposed", "rejected">>,
      <<"approved", "executing">>,
      <<"executing", "executed">>, <<"executing", "rolled_back">>,
      <<"executed", "rolled_back">> }

LifecycleOps == {"approve_action", "reject_action", "execute_action",
                 "rollback_action", "auto_approve_and_execute"}

SingleOps == {"approve_action", "reject_action", "execute_action", "rollback_action"}

\* the entries a step appends to the audit log that concern action id
AppendedFor(id) ==
    SelectSeq(SubSeq(audit_log', Len(audit_log) + 1, Len(audit_log')),
              LAMBDA e : e.action_id = id)

\* the appended entries lead from the old status to the new one, edge by edge
ChangesAlongEdges(id) ==
    LET es == AppendedFor(id)
    IN  IF es = <<>> THEN actions'[id].status = actions[id].status
        ELSE /\ es[1].before_state.status = actions[id].status
             /\ es[Len(es)].action_snapshot.status = actions'[id].status
             /\ \A k \in 1..Len(es) :
                    /\ es[k].event = es[k].action_snapshot.status
                    /\ <<es[k].before_state.status, es[k].action_snapshot.status>>
                           \in AdjacencyTable
             /\ \A k \in 1..(Len(es) - 1) :
                    es[k + 1].before_state.status = es[k].action_snapshot.status

\* the central guard applies a status change only along an edge
GuardFollowsTable ==
    \A id \in Created, new_status \in ActionStatus :
        LET t == _transition(State, id, new_status, "user", <<"">>, disk)
        IN  IF <<StatusOf(id), new_status>> \in AdjacencyTable
            THEN t.ok /\ t.S.actions[id].status = new_status
            ELSE ~t.ok /\ t.S.actions[id].status = StatusOf(id)

\* C1: in sequential use every change of an action's status made by
\* approve_action, reject_action, execute_action, rollback_action or
\* auto_approve_and_execute follows the edges of the adjacency table, one
\* recorded transition per edge, and the central guard _transition applies a
\* change only when <<current, new>> is an edge of the table.
C1_StatusChangesFollowTable ==
    /\ []GuardFollowsTable
    /\ [][lastCall'.op \in LifecycleOps =>
            \A id \in Created :
                /\ Len(audit_log') >= Len(audit_log)
                /\ ChangesAlongEdges(id)]_vars

\* an action went proposed -> approved -> executing -> executed -> rolled_back
\* while another one was rejected
C1_Witness ==
    /\ lastCall.op = "rollback_action"
    /\ lastCall.ret.success
    /\ StatusOf(lastCall.id) = "rolled_back"
    /\ \E id \in Created : StatusOf(id) = "rejected"

\* the policy table as the specification states it
PolicyTable(action_type, payload) ==
    CASE action_type \in {"acknowledge_alert", "create_task", "draft_po"} -> FALSE
      [] action_type \in {"update_delivery_eta", "transfer_stock"} -> TRUE
      [] action_type = "adjust_par" ->
            IF "par_change_pct" \in DOMAIN payload
            THEN ~(payload.par_change_pct >= -10 /\ payload.par_change_pct <= 10)
            ELSE TRUE

\* C10: every action create_action returns has requires_approval as the
\* policy table says: false for acknowledge_alert, create_task and draft_po,
\* true for update_delivery_eta and transfer_stock, and for adjust_par false
\* exactly when -10 <= par_change_pct <= 10.
C10_RequiresApprovalMatchesPolicy ==
    \A id \in Created :
        actions[id].requires_approval
            = PolicyTable(actions[id].action_type, actions[id].payload)

\* an adjust_par of exactly -10 was created and is auto-approvable
C10_Witness ==
    \E id \in Created :
        /\ actions[id].action_type = "adjust_par"
        /\ actions[id].payload = [par_change_pct |-> -10]
        /\ ~actions[id].requires_approval


\* number of positions of seq that hold x
Count(seq, x) == Cardinality({k \in 1..Len(seq) : seq[k] = x})

\* the log holds an approved entry for id ahead of every executing or
\* executed entry for id
ApprovedBeforeExecution(id) ==
    \E i \in 1..Len(audit_log) :
        /\ audit_log[i].action_id = id
        /\ audit_log[i].event = "approved"
        /\ \A j \in 1..Len(audit_log) :
               (audit_log[j].action_id = id /\ audit_log[j].event \in {"executing", "executed"})
                   => i < j

\* C2: in sequential use an action (all enter the store as proposed) is
\* executing or executed only after an approved transition was recorded for
\* it, and execute_action on a stored proposed action returns an
\* invalid-state failure and leaves it proposed.
C2_ExecutionOnlyAfterApproval ==
    /\ [](\A id \in Created :
            StatusOf(id) \in {"executing", "executed"} => ApprovedBeforeExecution(id))
    /\ [][\A id \in Created :
            (lastCall'.op = "execute_action" /\ lastCall'.id = id
                /\ IsStored(id) /\ StatusOf(id) = "proposed")
            => /\ ~lastCall'.ret.success
               /\ lastCall'.ret.error.kind = "invalid_state"
               /\ lastCall'.ret.error.status = "proposed"
               /\ actions'[id].status = "proposed"]_vars

\* execute_action was called on the still-proposed adjust_par of 25 percent
\* and failed, while another action has been executed
C2_Witness ==
    /\ lastCall.op = "execute_action"
    /\ lastCall.id \in Created
    /\ lastCall.ret.error.kind = "invalid_state"
    /\ actions[lastCall.id].action_type = "adjust_par"
    /\ actions[lastCall.id].payload = [par_change_pct |-> 25]
    /\ actions[lastCall.id].requires_approval
    /\ StatusOf(lastCall.id) = "proposed"
    /\ \E id \in Created : StatusOf(id) = "executed"

\* C3: auto_approve_and_execute leaves the status of every action whose
\* requires_approval is true unchanged, and returns each occurrence of such
\* an action of its input list in needs_review and none in auto_processed.
C3_AutoSkipsActionsNeedingApproval ==
    [][lastCall'.op = "auto_approve_and_execute" =>
        \A id \in Created :
            actions[id].requires_approval =>
                /\ actions'[id].status = actions[id].status
                /\ Count(lastCall'.ret.needs_review, id) = Count(lastCall'.ids, id)
                /\ \A k \in 1..Len(lastCall'.ret.auto_processed) :
                       lastCall'.ret.auto_processed[k].action_id # id]_vars

\* one call processed an auto-approvable action and returned one that
\* requires approval, still proposed, in needs_review
C3_Witness ==
    /\ lastCall.op = "auto_approve_and_execute"
    /\ Len(lastCall.ret.auto_processed) = 1
    /\ \E k \in 1..Len(lastCall.ret.needs_review) :
           /\ actions[lastCall.ret.needs_review[k]].requires_approval
           /\ StatusOf(lastCall.ret.needs_review[k]) = "proposed"
           /\ IsStored(lastCall.ret.needs_review[k])

\* calls a thread completed for action id with success, among operations ops
Successes(t, ops, id) ==
    Cardinality({k \in 1..Len(frame[t].done) :
                    /\ frame[t].done[k].op \in ops
                    /\ frame[t].done[k].id = id
                    /\ frame[t].done[k].ret.success})

SuccessfulCalls(ops, id) ==
    SumOver([t \in Threads |-> Successes(t, ops, id)], Threads)

\* C4: of the execute_action calls made on one action, concurrent ones
\* included, at most one returns success.
C4_AtMostOneExecuteSucceeds ==
    \A id \in Created : SuccessfulCalls({"execute_action"}, id) <= 1

\* C5: of the approve_action and reject_action calls made on one action,
\* concurrent ones included, at most one returns success, and the audit log
\* holds at most one approved or rejected entry for the action.
C5_AtMostOneDecision ==
    \A id \in Created :
        /\ SuccessfulCalls({"approve_action", "reject_action"}, id) <= 1
        /\ Cardinality({k \in 1..Len(audit_log) :
                           /\ audit_log[k].action_id = id
                           /\ audit_log[k].event \in {"approved", "rejected"}}) <= 1

Terminal == {"rejected", "rolled_back"}

\* the central guard refuses every transition out of rejected and rolled_back
TerminalGuard ==
    \A id \in Created :
        StatusOf(id) \in Terminal =>
            \A new_status \in ActionStatus :
                LET t == _transition(State, id, new_status, "user", <<"">>, disk)
                IN  ~t.ok /\ t.S.actions[id].status = StatusOf(id)

\* C6: once a stored action is rejected or rolled_back its status never
\* changes again: approve_action, reject_action, execute_action and
\* rollback_action on it return failure, auto_approve_and_execute does not
\* process it, and the central guard allows no transition out of these states.
C6_TerminalStatesAreFinal ==
    /\ []TerminalGuard
    /\ [][\A id \in Created :
            (IsStored(id) /\ StatusOf(id) \in Terminal) =>
                /\ actions'[id].status = StatusOf(id)
                /\ (lastCall'.op \in SingleOps /\ lastCall'.id = id)
                       => ~lastCall'.ret.success
                /\ lastCall'.op = "auto_approve_and_execute"
                       => \A k \in 1..Len(lastCall'.ret.auto_processed) :
                              lastCall'.ret.auto_processed[k].action_id # id]_vars

\* approve_action was tried on a rolled-back action and failed
C6_Witness ==
    /\ lastCall.op = "approve_action"
    /\ lastCall.id \in Created
    /\ ~lastCall.ret.success
    /\ StatusOf(lastCall.id) = "rolled_back"

\* the status each operation requires, as the specification states it
RequiredStatus(op) ==
    CASE op = "approve_action"  -> {"proposed"}
      [] op = "reject_action"   -> {"proposed"}
      [] op = "execute_action"  -> {"approved"}
      [] op = "rollback_action" -> {"executing", "executed"}

\* a step that is a call of op on stored action id from a status op does not allow
InvalidAttempt(id) ==
    /\ lastCall'.op \in SingleOps
    /\ lastCall'.id = id
    /\ IsStored(id)
    /\ StatusOf(id) \notin RequiredStatus(lastCall'.op)

\* C7: approve_action or reject_action on a stored action that is not
\* proposed, execute_action on one that is not approved, and rollback_action
\* on one that is neither executing nor executed return a result with
\* success = false and leave the action's status unchanged.
C7_InvalidTransitionFailsCleanly ==
    [][\A id \in Created :
        InvalidAttempt(id) =>
            /\ ~lastCall'.ret.success
            /\ actions'[id].status = StatusOf(id)]_vars

\* reject_action was tried on an approved action and failed
C7_Witness ==
    /\ lastCall.op = "reject_action"
    /\ lastCall.id \in Created
    /\ ~lastCall.ret.success
    /\ lastCall.ret.error.kind = "invalid_state"
    /\ StatusOf(lastCall.id) = "approved"

\* C8: each attempted invalid transition through approve_action,
\* reject_action, execute_action or rollback_action appends exactly one
\* audit entry, with event error, for that action.
C8_InvalidAttemptLogsOneError ==
    [][\A id \in Created :
        InvalidAttempt(id) =>
            /\ Len(audit_log') = Len(audit_log) + 1
            /\ audit_log'[Len(audit_log')].event = "error"
            /\ audit_log'[Len(audit_log')].action_id = id]_vars

\* C9: approve_action, reject_action, execute_action and rollback_action
\* called with an action_id that is not in the store return a not-found
\* failure and leave the actions, the store and the audit log (in memory and
\* on disk) unchanged.
C9_UnknownIdChangesNothing ==
    [][\A id \in ActionIds :
        (lastCall'.op \in SingleOps /\ lastCall'.id = id /\ ~IsStored(id)) =>
            /\ ~lastCall'.ret.success
            /\ lastCall'.ret.error.kind = "not_found"
            /\ UNCHANGED <<actions, action_store, audit_log, log_file>>]_vars

\* rollback_action was called for an action that was created but never
\* stored, while the store holds another action
C9_Witness ==
    /\ lastCall.op = "rollback_action"
    /\ lastCall.id \in Created
    /\ ~IsStored(lastCall.id)
    /\ lastCall.ret.error.kind = "not_found"
    /\ action_store # <<>>

\* the audit events recorded for action id, oldest first
RECURSIVE EventsFor(_, _)
EventsFor(log, id) ==
    IF log = <<>> THEN <<>>
    ELSE IF Head(log).action_id = id
         THEN <<Head(log).event>> \o EventsFor(Tail(log), id)
         ELSE EventsFor(Tail(log), id)

\* seq holds x
Holds(seq, x) == \E k \in 1..Len(seq) : seq[k] = x

\* C11: a draft_po action never requires approval, and in sequential use
\* auto_approve_and_execute leaves every stored proposed action of its input
\* list whose requires_approval is false in status executed; called with a
\* list of just one such action it returns one auto_processed entry (for that
\* action, status executed) and no needs_review entry.
C11_AutoProcessesAutoApprovable ==
    /\ [](\A id \in Created :
            actions[id].action_type = "draft_po" => ~actions[id].requires_approval)
    /\ [][lastCall'.op = "auto_approve_and_execute" =>
            \A id \in Created :
                (/\ Holds(lastCall'.ids, id)
                 /\ IsStored(id)
                 /\ StatusOf(id) = "proposed"
                 /\ ~actions[id].requires_approval)
                => /\ actions'[id].status = "executed"
                   /\ lastCall'.ids = <<id>> =>
                        /\ Len(lastCall'.ret.auto_processed) = 1
                        /\ Len(lastCall'.ret.needs_review) = 0
                        /\ lastCall'.ret.auto_processed[1].action_id = id
                        /\ lastCall'.ret.auto_processed[1].status = "executed"
                        /\ lastCall'.ret.auto_processed[1].exec_success]_vars

\* auto_approve_and_execute([action]) ran on a draft_po with quantity 50:
\* one auto_processed entry, nothing to review, the action executed
C11_Witness ==
    /\ lastCall.op = "auto_approve_and_execute"
    /\ Len(lastCall.ids) = 1
    /\ actions[lastCall.ids[1]].action_type = "draft_po"
    /\ actions[lastCall.ids[1]].payload = [quantity |-> 50]
    /\ ~actions[lastCall.ids[1]].requires_approval
    /\ Len(lastCall.ret.auto_processed) = 1
    /\ Len(lastCall.ret.needs_review) = 0
    /\ StatusOf(lastCall.ids[1]) = "executed"
    /\ EventsFor(audit_log, lastCall.ids[1]) = <<"approved", "executing", "executed">>

\* C12: in sequential use approve_action on a stored, freshly created action
\* returns success, and execute_action called next on the same action returns
\* success with a non-empty exec_result and leaves the action executed; the
\* audit log then holds for that action the entries approved, executing,
\* executed, in that order.
C12_ApproveThenExecuteRoundTrip ==
    [][\A id \in ActionIds :
        /\ (/\ lastCall'.op = "approve_action"
            /\ lastCall'.id = id
            /\ IsStored(id)
            /\ StatusOf(id) = "proposed"
            /\ EventsFor(audit_log, id) = <<>>)
           => /\ lastCall'.ret.success
              /\ EventsFor(audit_log', id) = <<"approved">>
        /\ (/\ lastCall.op = "approve_action"
            /\ lastCall.id = id
            /\ lastCall.ret.success
            /\ EventsFor(audit_log, id) = <<"approved">>
            /\ lastCall'.op = "execute_action"
            /\ lastCall'.id = id)
           => /\ lastCall'.ret.success
              /\ actions'[id].status = "executed"
              /\ lastCall'.ret.exec_result # None
              /\ DOMAIN lastCall'.ret.exec_result.result # {}
              /\ lastCall'.ret.exec_result.result.message # <<>>
              /\ EventsFor(audit_log', id) = <<"approved", "executing", "executed">>]_vars

\* approve_action by the user and then execute_action took a fresh action to
\* executed, with the three entries in the log
C12_Witness ==
    /\ lastCall.op = "execute_action"
    /\ lastCall.id \in Created
    /\ lastCall.ret.success
    /\ lastCall.ret.exec_result # None
    /\ StatusOf(lastCall.id) = "executed"
    /\ EventsFor(audit_log, lastCall.id) = <<"approved", "executing", "executed">>
    /\ \E k \in 1..Len(audit_log) :
           /\ audit_log[k].action_id = lastCall.id
           /\ audit_log[k].event = "approved"
           /\ audit_log[k].actor = "user"

\* C13: in sequential use approve_action on a stored proposed action succeeds
\* and sets its status to approved; approve_action called again on the same id
\* right after fails with an invalid-state result naming status approved and
\* changes nothing.
C13_SecondApproveFails ==
    [][\A id \in ActionIds :
        /\ (/\ lastCall'.op = "approve_action"
            /\ lastCall'.id = id
            /\ IsStored(id)
            /\ StatusOf(id) = "proposed")
           => /\ lastCall'.ret.success
              /\ actions'[id].status = "approved"
        /\ (/\ lastCall.op = "approve_action"
            /\ lastCall.id = id
            /\ lastCall.ret.success
            /\ lastCall'.op = "approve_action"
            /\ lastCall'.id = id)
           => /\ ~lastCall'.ret.success
              /\ lastCall'.ret.error.kind = "invalid_state"
              /\ lastCall'.ret.error.status = "approved"
              /\ actions'[id].status = "approved"
              /\ UNCHANGED <<actions, audit_log, log_file>>]_vars

\* the second of two approve_action calls on one action has just failed: the
\* log holds the single approved entry of the first
C13_Witness ==
    /\ lastCall.op = "approve_action"
    /\ lastCall.id \in Created
    /\ ~lastCall.ret.success
    /\ lastCall.ret.error.kind = "invalid_state"
    /\ lastCall.ret.error.status = "approved"
    /\ StatusOf(lastCall.id) = "approved"
    /\ EventsFor(audit_log, lastCall.id) = <<"approved">>
    /\ Len(audit_log) = 1

\* seq continues pre: pre is an initial segment of seq
IsPrefix(pre, seq) ==
    /\ Len(pre) <= Len(seq)
    /\ \A k \in 1..Len(pre) : seq[k] = pre[k]

\* the entries of a log as json prints them, a live snapshot read through
Printed(log, heap) == [k \in 1..Len(log) |-> Serialise(log[k], heap)]

\* C14: while the log file can be read and written, no call of audit.record
\* (by the planner or by a transition), get_log or get_recent_actions removes,
\* reorders or alters an entry: the in-memory log and the log file after the
\* call continue the ones before it, entry for entry.
C14_AuditLogOnlyGrows ==
    [][/\ IsPrefix(Printed(audit_log, actions), Printed(audit_log', actions'))
       /\ IsPrefix(log_file.data, log_file'.data)
       /\ lastCall'.op \in {"get_log", "get_recent_actions"} =>
            /\ Printed(audit_log', actions') = Printed(audit_log, actions)
            /\ log_file'.data = log_file.data]_vars

\* get_log returned the whole log, newest first: the planner's proposed entry,
\* still showing status proposed, and a later approved entry for the same action
C14_Witness ==
    /\ lastCall.op = "get_log"
    /\ Len(lastCall.ret) = 2
    /\ Len(audit_log) = 2
    /\ audit_log[1].event = "proposed"
    /\ audit_log[1].action_snapshot.status = "proposed"
    /\ audit_log[2].event = "approved"
    /\ audit_log[2].action_id = audit_log[1].action_id
    /\ audit_log[2].timestamp > audit_log[1].timestamp
    /\ lastCall.ret = <<audit_log[2], audit_log[1]>>
    /\ log_file.data = audit_log

\* the fields of an action dict that are fixed at creation
FixedFields(a) ==
    <<a.action_id, a.action_type, a.payload, a.owner_role, a.risk_level,
      a.requires_approval, a.created_at>>

\* C17: in sequential use approve_action, reject_action, execute_action,
\* rollback_action and auto_approve_and_execute never change an action's
\* action_id, action_type, payload, owner_role, risk_level, requires_approval
\* or created_at (so a transition changes status and updated_at at most, and
\* stamps updated_at with the time of the call), and a call of one of the
\* first four that returns failure changes no action at all.
C17_TransitionsTouchStatusOnly ==
    [][lastCall'.op \in LifecycleOps =>
        /\ Len(actions') = Len(actions)
        /\ \A ref \in Created :
               /\ FixedFields(actions'[ref]) = FixedFields(actions[ref])
               /\ actions'[ref].status # actions[ref].status
                      => actions'[ref].updated_at = clock
               /\ actions'[ref].status = actions[ref].status
                      => actions'[ref] = actions[ref]
        /\ (lastCall'.op \in SingleOps /\ ~lastCall'.ret.success)
               => actions' = actions]_vars

\* an action created at time 0 was approved and executed later: updated_at
\* moved on, created_at did not
C17_Witness ==
    /\ lastCall.op = "execute_action"
    /\ lastCall.ret.success
    /\ lastCall.id \in Created
    /\ StatusOf(lastCall.id) = "executed"
    /\ actions[lastCall.id].created_at = 0
    /\ actions[lastCall.id].updated_at = MaxClock

\* positions of a log that hold entry e
Occurrences(log, e) == Cardinality({k \in 1..Len(log) : log[k] = e})

\* the threads inside the with _lock block of record
InCriticalSection ==
    {t \in Threads : pc[t] \in {"rec_load", "rec_append", "rec_save", "rec_release"}}

\* C15: with the log file readable and writable, the load-append-save steps
\* of concurrent audit.record calls do not interleave (at most one thread is
\* between taking and releasing audit._lock), and once every call has
\* returned, the in-memory log and the log file hold each recorded entry
\* exactly once and nothing else.
C15_ConcurrentRecordsAllKept ==
    /\ Cardinality(InCriticalSection) <= 1
    /\ (\A t \in Threads : pc[t] = "idle") =>
          /\ \A t \in Threads : \A k \in 1..Len(frame[t].done) :
                 /\ Occurrences(Printed(audit_log, actions), frame[t].done[k].ret) = 1
                 /\ Occurrences(log_file.data, frame[t].done[k].ret) = 1
          /\ Len(audit_log) = Requests
          /\ Len(log_file.data) = Requests

\* both threads have recorded, MaxCalls calls in all, and every call has returned
C15_Witness ==
    /\ \A t \in Threads : pc[t] = "idle" /\ Len(frame[t].done) >= 1
    /\ \A t \in Threads : \A k \in 1..Len(frame[t].done) : frame[t].done[k].op = "record"
    /\ Requests = MaxCalls
    /\ Len(log_file.data) = MaxCalls
    /\ audit_lock = "free"

\* C16: whenever a public executor call (store_actions included) leaves under
\* an action_id a status that differs from the one stored under it before the
\* call, the call has appended an audit entry for that id whose event is the
\* new status.
C16_EveryStatusChangeIsAudited ==
    [][\A id \in ActionIds :
        (/\ InStore(action_store, id)
         /\ InStore(action_store', id)
         /\ actions'[Get(action_store', id)].status # actions[Get(action_store, id)].status)
        => \E k \in (Len(audit_log) + 1)..Len(audit_log') :
               /\ audit_log'[k].action_id = id
               /\ audit_log'[k].event = actions'[Get(action_store', id)].status]_vars

---------------------------------------------------------------------------
(* Claims on the alert eligibility filter                                  *)

Returned(call, e) == \E i \in 1..Len(call.ret) : call.ret[i] = e

Offered(call, e) == \E i \in 1..Len(call.events) : call.events[i] = e

IsFilterCall(call) == call.op = "filter_eligible_alerts"

Chicken == [item_id |-> "chicken", confidence |-> 70, days_until |-> 3]

Stored(e) == alert_history[e.item_id]

WithinCooldown(e, now) ==
    /\ Stored(e) # <<>>
    /\ now - Stored(e)[1].last_alert_ts < COOLDOWN_SECONDS

\* C19: within the 24h cooldown an offered event with the days_until of the
\* stored record of its item and strictly higher confidence is returned, one
\* with the same confidence and strictly lower days_until is returned, and
\* one that is neither more confident nor more urgent is not returned.
C19_ReAlertOnlyWhenMoreCertainOrUrgent ==
    [][ IsFilterCall(lastCall')
        => \A e \in RiskEvents :
              (Offered(lastCall', e) /\ WithinCooldown(e, lastCall'.now))
              => LET prev == Stored(e)[1]
                 IN  /\ (e.days_until = prev.days_until /\ e.confidence > prev.confidence)
                            => Returned(lastCall', e)
                     /\ (e.confidence = prev.confidence /\ e.days_until < prev.days_until)
                            => Returned(lastCall', e)
                     /\ (e.confidence <= prev.confidence /\ e.days_until >= prev.days_until)
                            => ~Returned(lastCall', e) ]_vars

\* chicken (0.7, 3 days) is on record since T0 = 0; an hour later the call
\* is offered chicken (0.9, 3 days) and chicken (0.7, 3 days): it returns the
\* first alone
C19_Witness ==
    /\ IsFilterCall(lastCall)
    /\ lastCall.now = 3600
    /\ lastCall.events = << [Chicken EXCEPT !.confidence = 90], Chicken >>
    /\ lastCall.ret = << [Chicken EXCEPT !.confidence = 90] >>
    /\ alert_history["chicken"] =
           << [last_alert_ts |-> 3600, confidence |-> 90, days_until |-> 3] >>


\* the history entry written for event e admitted at time at
RecordOf(e, at) ==
    [last_alert_ts |-> at, confidence |-> e.confidence, days_until |-> e.days_until]

Suppressed(call, e) == Offered(call, e) /\ ~Returned(call, e)

\* C20: a suppressed event leaves the history entry of its item_id as it was,
\* in memory and in the file, when the call admits no other event of the
\* item; in every case the entry after the call is that of the last admitted
\* alert of the item, never that of the suppressed attempt.
C20_SuppressedEventKeepsHistory ==
    [][ IsFilterCall(lastCall')
        => \A e \in RiskEvents :
              Suppressed(lastCall', e)
              => LET item == e.item_id
                     last == lastCall'.last_admitted[item]
                 IN  /\ OfItem(lastCall'.ret, item) = <<>>
                            => /\ alert_history'[item] = alert_history[item]
                               /\ history_file'.data[item] = alert_history[item]
                     /\ last # <<>>
                     /\ alert_history'[item] = << RecordOf(last[1].event, last[1].at) >> ]_vars

\* chicken (0.7, 3 days) was admitted at T0 = 0; offered again in the last
\* second of the cooldown it is suppressed and the entry still says T0
C20_Witness ==
    /\ IsFilterCall(lastCall)
    /\ lastCall.now = COOLDOWN_SECONDS - 1
    /\ Suppressed(lastCall, Chicken)
    /\ alert_history["chicken"] = << RecordOf(Chicken, 0) >>
    /\ history_file.data["chicken"] = << RecordOf(Chicken, 0) >>


\* C21: after filter_eligible_alerts(events, now) the history entry of every
\* item with a returned event is {last_alert_ts: now, confidence, days_until}
\* of the last returned event of that item, in memory and in the file, and
\* the entry of every other item is what it was.
C21_HistoryHoldsLastAdmitted ==
    [][ IsFilterCall(lastCall')
        => \A item \in Items :
              LET mine == OfItem(lastCall'.ret, item)
                  entry == IF mine = <<>>
                           THEN alert_history[item]
                           ELSE << RecordOf(mine[Len(mine)], lastCall'.now) >>
              IN  /\ alert_history'[item] = entry
                  /\ history_file'.data[item] = entry ]_vars

\* an hour after chicken (0.7, 3 days) and a beef event were admitted, a call
\* admits chicken (0.9, 3 days) and then chicken (0.9, 2 days): the entry of
\* chicken is that of the second, the entry of beef still says T0
C21_Witness ==
    /\ IsFilterCall(lastCall)
    /\ lastCall.now = 3600
    /\ lastCall.ret = << [Chicken EXCEPT !.confidence = 90],
                         [Chicken EXCEPT !.confidence = 90, !.days_until = 2] >>
    /\ alert_history["chicken"] =
           << [last_alert_ts |-> 3600, confidence |-> 90, days_until |-> 2] >>
    /\ alert_history["beef"] # <<>>
    /\ alert_history["beef"][1].last_alert_ts = 0


\* the history file exists and _load_history cannot read or parse it
HistoryUnreadable ==
    /\ history_file.exists
    /\ (disk = "down" \/ ~history_file.readable)

\* C22: when the persisted history cannot be read or parsed,
\* filter_eligible_alerts returns every event of the batch, in order, and the
\* history it leaves holds the events of that batch and nothing else.
C22_UnreadableHistoryAdmitsAll ==
    [][ (IsFilterCall(lastCall') /\ HistoryUnreadable)
        => /\ lastCall'.ret = lastCall'.events
           /\ \A item \in Items :
                 OfItem(lastCall'.events, item) = <<>> => alert_history'[item] = <<>> ]_vars

\* the file holds chicken (0.7, 3 days) admitted at T0 = 0; an hour later
\* the disk is down and a call offered that event returns it
C22_Witness ==
    /\ IsFilterCall(lastCall)
    /\ disk = "down"
    /\ history_file.exists
    /\ history_file.readable
    /\ history_file.data["chicken"] = << RecordOf(Chicken, 0) >>
    /\ lastCall.now = 3600
    /\ lastCall.events = <<Chicken>>
    /\ lastCall.ret = <<Chicken>>


\* C23: after reset_history() the in-memory history is empty and the history
\* file is gone, and the filter_eligible_alerts call that follows returns
\* every event of its batch.
C23_ResetReadmitsEverything ==
    [][ /\ lastCall'.op = "reset_history"
            => /\ alert_history' = EmptyHistory
               /\ ~history_file'.exists
        /\ (lastCall.op = "reset_history" /\ IsFilterCall(lastCall'))
            => lastCall'.ret = lastCall'.events ]_vars

\* reset_history removed an entry of chicken written at most an hour before,
\* and the call after it, offered chicken (0.7, 3 days) twice, returns both
C23_Witness ==
    /\ IsFilterCall(lastCall)
    /\ lastCall.wiped = {"chicken"}
    /\ lastCall.now = 3600
    /\ lastCall.events = <<Chicken, Chicken>>
    /\ lastCall.ret = <<Chicken, Chicken>>


\* C24: create_action asked for an action_type outside the six of the
\* enumeration raises and builds no action; asked for one of the six it
\* returns an action of exactly that type with status proposed.
C24_UnknownTypeRaises ==
    [][ lastCall'.op = "create_action"
        => IF lastCall'.ret.asked \in
                {"draft_po", "create_task", "adjust_par", "update_delivery_eta",
                 "transfer_stock", "acknowledge_alert"}
           THEN /\ ~lastCall'.ret.raised
                /\ Len(actions') = Len(actions) + 1
                /\ actions'[Len(actions')].action_type = lastCall'.ret.asked
                /\ actions'[Len(actions')].status = "proposed"
           ELSE /\ lastCall'.ret.raised
                /\ actions' = actions ]_vars

\* create_action("send_email", ...) raised and no action exists
C24_Witness ==
    /\ lastCall.op = "create_action"
    /\ lastCall.ret.asked = "send_email"
    /\ lastCall.ret.raised
    /\ actions = <<>>


\* the entries a step appends to the log that record a transition of action id
RECURSIVE TransitionsOf(_, _)
TransitionsOf(log, id) ==
    IF log = <<>> THEN <<>>
    ELSE IF Head(log).action_id = id /\ Head(log).event # "error"
         THEN <<Head(log)>> \o TransitionsOf(Tail(log), id)
         ELSE TransitionsOf(Tail(log), id)

Appended(old, new) == SubSeq(new, Len(old) + 1, Len(new))

\* C26: the log keeps its entries and gains, for each action, exactly one
\* entry per status change of the step: the entry's event and the status in
\* its action_snapshot are the new status, the status in its before_state is
\* the status before that change; a successful reject_action or
\* rollback_action leaves its reason in the notes of its entry.
C26_OneEntryPerTransition ==
    [][ /\ IsPrefix(audit_log, audit_log')
        /\ \A id \in Created :
              LET tr == TransitionsOf(Appended(audit_log, audit_log'), id)
              IN  /\ \A k \in 1..Len(tr) :
                        /\ tr[k].event = tr[k].action_snapshot.status
                        /\ tr[k].before_state.status # tr[k].event
                        /\ tr[k].before_state.status =
                               IF k = 1 THEN actions[id].status
                               ELSE tr[k - 1].action_snapshot.status
                  /\ actions'[id].status =
                         IF tr = <<>> THEN actions[id].status
                         ELSE tr[Len(tr)].action_snapshot.status
                  /\ (/\ lastCall'.op \in {"reject_action", "rollback_action"}
                      /\ lastCall'.id = id
                      /\ lastCall'.ret.success)
                     => /\ Len(tr) = 1
                        /\ tr[1].notes = <<"duplicate">>
                        /\ tr[1].event = IF lastCall'.op = "reject_action"
                                         THEN "rejected" ELSE "rolled_back" ]_vars

\* rollback_action with reason "duplicate" succeeded on an executed action:
\* the last entry of the log records executed -> rolled_back with that reason
C26_Witness ==
    /\ lastCall.op = "rollback_action"
    /\ lastCall.ret.success
    /\ audit_log # <<>>
    /\ LET e == audit_log[Len(audit_log)]
       IN  /\ e.action_id = lastCall.id
           /\ e.event = "rolled_back"
           /\ e.before_state.status = "executed"
           /\ e.action_snapshot.status = "rolled_back"
           /\ e.notes = <<"duplicate">>


---------------------------------------------------------------------------
(* Claims on the executor, continued                                       *)

\* the dict stored under action_id id
StoredAction(id) == actions[Get(action_store, id)]

\* C27: rollback_action on a stored action returns success and leaves it
\* rolled_back when its status is executing or executed; when its status is
\* proposed, approved, rejected or rolled_back it returns failure and leaves
\* the status as it was.
C27_RollbackOnlyFromExecution ==
    [][ \A id \in ActionIds :
          (lastCall'.op = "rollback_action" /\ lastCall'.id = id /\ IsStored(id))
          => LET ref == Get(action_store, id)
             IN  IF actions[ref].status \in {"executing", "executed"}
                 THEN /\ lastCall'.ret.success
                      /\ actions'[ref].status = "rolled_back"
                 ELSE /\ ~lastCall'.ret.success
                      /\ actions'[ref].status = actions[ref].status ]_vars

\* a dict with status executing was registered and rollback_action on it
\* succeeded: the last entry of the log records executing -> rolled_back
C27_Witness ==
    /\ lastCall.op = "rollback_action"
    /\ lastCall.ret.success
    /\ IsStored(lastCall.id)
    /\ StoredAction(lastCall.id).status = "rolled_back"
    /\ audit_log # <<>>
    /\ audit_log[Len(audit_log)].event = "rolled_back"
    /\ audit_log[Len(audit_log)].before_state.status = "executing"


\* approve_action(id) fails: id is not in the store or is not proposed
ApprovalFails(id) == ~IsStored(id) \/ StatusOf(id) # "proposed"

AutoApprovable(id) == ~actions[id].requires_approval

\* C28: auto_approve_and_execute returns every occurrence of an
\* auto-approvable action whose approval fails (not in the store, or stored
\* with a status other than proposed) in needs_review and none in
\* auto_processed, leaves that action and the store as they were, and still
\* processes the items that come later in the list: a stored, proposed,
\* auto-approvable action behind it ends executed and in auto_processed.
C28_FailedApprovalGoesToReview ==
    [][ lastCall'.op = "auto_approve_and_execute"
        => \A i \in 1..Len(lastCall'.ids) :
              LET id == lastCall'.ids[i]
              IN  (AutoApprovable(id) /\ ApprovalFails(id))
                  => /\ Count(lastCall'.ret.needs_review, id) = Count(lastCall'.ids, id)
                     /\ \A k \in 1..Len(lastCall'.ret.auto_processed) :
                           lastCall'.ret.auto_processed[k].action_id # id
                     /\ actions'[id] = actions[id]
                     /\ action_store' = action_store
                     /\ \A j \in (i + 1)..Len(lastCall'.ids) :
                           LET later == lastCall'.ids[j]
                           IN  (AutoApprovable(later) /\ ~ApprovalFails(later))
                               => /\ actions'[later].status = "executed"
                                  /\ \E k \in 1..Len(lastCall'.ret.auto_processed) :
                                        lastCall'.ret.auto_processed[k].action_id = later ]_vars

\* the call was given an auto-approvable action that is not in the store and
\* then one that is stored: the first is in needs_review and still proposed,
\* the second was executed
C28_Witness ==
    /\ lastCall.op = "auto_approve_and_execute"
    /\ Len(lastCall.ids) = 2
    /\ lastCall.ids[1] # lastCall.ids[2]
    /\ AutoApprovable(lastCall.ids[1])
    /\ ~IsStored(lastCall.ids[1])
    /\ StatusOf(lastCall.ids[1]) = "proposed"
    /\ lastCall.ret.needs_review = <<lastCall.ids[1]>>
    /\ Len(lastCall.ret.auto_processed) = 1
    /\ lastCall.ret.auto_processed[1].action_id = lastCall.ids[2]
    /\ StatusOf(lastCall.ids[2]) = "executed"


\* number of entries of auto_processed that name action id
Processed(ret, id) ==
    Cardinality({k \in 1..Len(ret.auto_processed) : ret.auto_processed[k].action_id = id})

\* C29: auto_approve_and_execute returns each element of its input list in
\* exactly one of auto_processed and needs_review: per action the entries of
\* the two lists add up to its occurrences in the input, so the lengths add
\* up to the input length; when a stored, proposed, auto-approvable action is
\* given more than once, it is executed once, for its first occurrence, and
\* returned in needs_review for each further one.
C29_EveryItemInOneList ==
    [][ lastCall'.op = "auto_approve_and_execute"
        => LET ret == lastCall'.ret
               ids == lastCall'.ids
           IN  /\ Len(ret.auto_processed) + Len(ret.needs_review) = Len(ids)
               /\ \A id \in Created :
                     /\ Processed(ret, id) + Count(ret.needs_review, id) = Count(ids, id)
                     /\ Processed(ret, id) <= 1
                     /\ (/\ Count(ids, id) >= 2
                         /\ AutoApprovable(id)
                         /\ ~ApprovalFails(id))
                        => /\ Processed(ret, id) = 1
                           /\ \A k \in 1..Len(ret.auto_processed) :
                                 ret.auto_processed[k].action_id = id
                                     => ret.auto_processed[k].exec_success
                           /\ Count(ret.needs_review, id) = Count(ids, id) - 1
                           /\ actions'[id].status = "executed" ]_vars

\* the call was given the same stored, auto-approvable action twice: one
\* entry in auto_processed, the action once in needs_review, status executed
C29_Witness ==
    /\ lastCall.op = "auto_approve_and_execute"
    /\ Len(lastCall.ids) = 2
    /\ lastCall.ids[1] = lastCall.ids[2]
    /\ Len(lastCall.ret.auto_processed) = 1
    /\ lastCall.ret.auto_processed[1].action_id = lastCall.ids[1]
    /\ lastCall.ret.needs_review = <<lastCall.ids[1]>>
    /\ StatusOf(lastCall.ids[1]) = "executed"
    /\ EventsFor(audit_log, lastCall.ids[1]) = <<"approved", "executing", "executed">>


\* C30: in the sequential system, where every stored action was registered
\* as proposed, no stored action has status executing between calls, and an
\* execute_action call on a stored, approved action leaves it executed or
\* rolled_back.
C30_NeverLeftExecuting ==
    /\ [](\A id \in Created : IsStored(id) => StatusOf(id) # "executing")
    /\ [][ \A id \in Created :
             (/\ lastCall'.op = "execute_action"
              /\ lastCall'.id = id
              /\ IsStored(id)
              /\ StatusOf(id) = "approved")
             => actions'[id].status \in {"executed", "rolled_back"} ]_vars

\* execute_action returned for an approved action: the log shows that the
\* action went through executing, and it is executed now
C30_Witness ==
    /\ lastCall.op = "execute_action"
    /\ lastCall.id \in Created
    /\ IsStored(lastCall.id)
    /\ lastCall.ret.success
    /\ audit_log[Len(audit_log)].event = "executed"
    /\ audit_log[Len(audit_log)].before_state.status = "executing"
    /\ audit_log[Len(audit_log)].action_id = lastCall.id
    /\ StatusOf(lastCall.id) = "executed"


---------------------------------------------------------------------------
(* Claims on the alert eligibility filter, continued                       *)

\* event e is more certain or more urgent than event f
Escalates(e, f) == e.confidence > f.confidence \/ e.days_until < f.days_until

\* C31: of two events of one item admitted one after the other less than 24h
\* apart, in one call or in two, the second has strictly higher confidence
\* or strictly lower days_until than the first; two identical events of an
\* item are never both admitted within 24h.
C31_ConsecutiveAlertsEscalate ==
    [][ IsFilterCall(lastCall')
        => \A item \in Items :
              LET mine == OfItem(lastCall'.ret, item)
                  last == lastCall.last_admitted[item]
              IN  /\ \A k \in 1..(Len(mine) - 1) : Escalates(mine[k + 1], mine[k])
                  /\ (/\ mine # <<>>
                      /\ last # <<>>
                      /\ lastCall'.now - last[1].at < COOLDOWN_SECONDS)
                     => Escalates(mine[1], last[1].event) ]_vars


---------------------------------------------------------------------------
(* The execute shortcuts outside the executor: the /agent/execute route    *)
(* (app.py) and the copilot tools execute_action and bulk_action           *)
(* (copilot.py).  Each approves a proposed action on the caller's behalf   *)
(* before executing it, unless the action requires approval.               *)

MaxTrail == 3        \* the copilot tools run while the log is shorter than this

\* list.sort(key=created_at, reverse=True): a stable sort, dicts with equal
\* created_at keep their order
RECURSIVE InsertByCreatedAt(_, _, _)
InsertByCreatedAt(heap, sorted, a) ==
    IF sorted = <<>> THEN <<a>>
    ELSE IF heap[Head(sorted)].created_at >= heap[a].created_at
         THEN <<Head(sorted)>> \o InsertByCreatedAt(heap, Tail(sorted), a)
         ELSE <<a>> \o sorted

RECURSIVE SortNewestCreatedFirst(_, _)
SortNewestCreatedFirst(heap, refs) ==
    IF refs = <<>> THEN <<>>
    ELSE InsertByCreatedAt(heap, SortNewestCreatedFirst(heap, SubSeq(refs, 1, Len(refs) - 1)),
                           refs[Len(refs)])

\* get_all_actions sorted oldest first
get_all_actions_ascending(heap, store, status_filter) ==
    LET values == [i \in 1..Len(store) |-> store[i].ref]
        kept == IF status_filter # <<>> /\ status_filter[1] # ""
                THEN SelectSeq(values, LAMBDA a : heap[a].status = status_filter[1])
                ELSE values
        sorted == SortNewestCreatedFirst(heap, kept)
    IN  [i \in 1..Len(sorted) |-> sorted[Len(sorted) + 1 - i]]

\* get_all_actions(status_filter=None): the dicts of the store, as
\* references; a filter is <<value>>, or <<>> when the argument is None,
\* and an empty string filters nothing
get_all_actions(heap, store, status_filter) ==
    LET values == [i \in 1..Len(store) |-> store[i].ref]
        kept == IF status_filter # <<>> /\ status_filter[1] # ""
                THEN SelectSeq(values, LAMBDA a : heap[a].status = status_filter[1])
                ELSE values
    IN  SortNewestCreatedFirst(heap, kept)

\* the refusal of a shortcut: the action requires approval
RequiresApproval ==
    [success |-> FALSE, error |-> [kind |-> "requires_approval", status |-> "proposed"],
     exec_result |-> None]

\* the stored dict is proposed and requires approval
Gated(S, store, id) ==
    /\ InStore(store, id)
    /\ S.actions[Get(store, id)].status = "proposed"
    /\ S.actions[Get(store, id)].requires_approval

\* if action.get("status") == "proposed": approve_action(action_id, actor);
\* the result of the approval, or a success when there was nothing to approve
AutoApproved(S, store, id, actor, d) ==
    IF InStore(store, id) /\ S.actions[Get(store, id)].status = "proposed"
    THEN approve_action(S, store, id, actor, d)
    ELSE [S |-> S, ret |-> Result(TRUE)]

\* status_code = 200 if result.get("success") else 400
Respond(result) ==
    [S |-> result.S, ret |-> result.ret,
     code |-> IF result.ret.success THEN 200 ELSE 400]

\* agent_execute that approves every proposed action before executing it
agent_execute_always(S, store, id, actor, d) ==
    Respond(execute_action(AutoApproved(S, store, id, "auto-shortcut", d).S,
                           store, id, actor, d))

\* agent_execute(): POST /agent/execute with a non-empty action_id; code is
\* the HTTP status of the response.  The result of the approval is not read.
agent_execute(S, store, id, actor, d) ==
    IF Gated(S, store, id)
    THEN [S |-> S, ret |-> RequiresApproval, code |-> 403]
    ELSE Respond(execute_action(AutoApproved(S, store, id, "auto-shortcut", d).S,
                                store, id, actor, d))

\* audit.record(action_id=full_id, event="copilot_execute",
\* action_snapshot=action, ...) after execute_action returned result; the
\* snapshot is the live dict
CopilotRecord(now, result, action, id, d) ==
    [S |-> [result.S EXCEPT
               !.log = record(result.S.log,
                              Entry(now, id, "copilot_execute", "copilot-agent",
                                    [ref |-> action], TRUE, None,
                                    <<"Executed via Copilot conversation">>),
                              d, result.S.actions)],
     ret |-> result.ret]

\* the rest of _tool_execute_action once the approval returned approve_result
CopilotExecute(now, approve_result, store, id, d) ==
    IF ~approve_result.ret.success
    THEN [S |-> approve_result.S,
          ret |-> [approve_result.ret EXCEPT !.error.kind = "auto_approve_failed"]]
    ELSE CopilotRecord(now,
                       execute_action(approve_result.S, store, id, "copilot-agent", d),
                       Get(store, id), id, d)

\* _tool_execute_action(args, context) with a non-empty action_id.  The ids
\* of the model are whole: _resolve_action_id finds the id in the store or
\* nothing.  The tool records "copilot_execute" whatever execute_action
\* returned.
_tool_execute_action(S, store, id, d) ==
    IF ~InStore(store, id) THEN [S |-> S, ret |-> NotFound]
    ELSE IF Gated(S, store, id) THEN [S |-> S, ret |-> RequiresApproval]
    ELSE CopilotExecute(S.now, AutoApproved(S, store, id, "copilot-agent", d),
                        store, id, d)

\* action_summary["result"] after a call of the executor returned r
BulkOutcome(r, done) ==
    [S |-> r.S, result |-> IF r.ret.success THEN done ELSE "Failed"]

\* the rest of a turn of operation "execute" once the approval returned ar
BulkExecute(ar, store, action, aid, d) ==
    IF ~ar.ret.success
    THEN [S |-> ar.S, result |-> "Auto-approve failed"]
    ELSE IF /\ ar.S.actions[action].status # "approved"
            /\ InStore(store, aid)
            /\ ar.S.actions[Get(store, aid)].status # "approved"
         THEN [S |-> ar.S, result |-> "Skipped (status)"]
         ELSE BulkOutcome(execute_action(ar.S, store, aid, "copilot-agent", d),
                          "Executed")

\* one turn of the loop of _tool_bulk_action over the matching dicts:
\* the state after it and the "result" text of its summary
BulkTurn(S, store, operation, action, d) ==
    CASE operation = "approve" ->
           IF S.actions[action].status # "proposed"
           THEN [S |-> S, result |-> "Skipped (status)"]
           ELSE BulkOutcome(approve_action(S, store, S.actions[action].action_id,
                                           "copilot-agent", d), "Approved")
      [] operation = "reject" ->
           IF S.actions[action].status # "proposed"
           THEN [S |-> S, result |-> "Skipped (status)"]
           ELSE BulkOutcome(reject_action(S, store, S.actions[action].action_id,
                                          "copilot-agent", "Bulk rejected via Copilot",
                                          d), "Rejected")
      [] operation = "execute" ->
           IF S.actions[action].status = "proposed" /\ S.actions[action].requires_approval
           THEN [S |-> S, result |-> "Skipped (requires human approval)"]
           ELSE BulkExecute(AutoApproved(S, store, S.actions[action].action_id,
                                         "copilot-agent", d),
                            store, action, S.actions[action].action_id, d)

\* for action in matching: ...; results.append(action_summary)
RECURSIVE BulkLoop(_, _, _, _, _, _)
RECURSIVE BulkNext(_, _, _, _, _, _, _)
BulkNext(turn, aid, store, operation, rest, results, d) ==
    BulkLoop(turn.S, store, operation, rest,
             Append(results, [action_id |-> aid, result |-> turn.result]), d)

BulkLoop(S, store, operation, matching, results, d) ==
    IF matching = <<>> THEN [S |-> S, results |-> results]
    ELSE BulkNext(BulkTurn(S, store, operation, Head(matching), d),
                  S.actions[Head(matching)].action_id,
                  store, operation, Tail(matching), results, d)

\* the action_id under which the bulk tool records: the string "bulk"
BulkId == 0

\* event=f"copilot_bulk_{operation}"
BulkEvent(operation) ==
    CASE operation = "execute" -> "copilot_bulk_execute"
      [] operation = "approve" -> "copilot_bulk_approve"
      [] operation = "reject"  -> "copilot_bulk_reject"

BulkSucceeded == {"Approved", "Rejected", "Executed"}

\* success_count
SuccessCount(results) == Len(SelectSeq(results, LAMBDA s : s.result \in BulkSucceeded))

\* the audit.record and the return of _tool_bulk_action after its loop
BulkReport(now, loop, operation, processed, count, d) ==
    [S |-> [loop.S EXCEPT
               !.log = record(loop.S.log,
                              Entry(now, BulkId, BulkEvent(operation), "copilot-agent",
                                    [operation |-> operation, count |-> count],
                                    FALSE, None,
                                    <<"Bulk", operation, processed, count - processed>>),
                              d, loop.S.actions)],
     ret |-> [success |-> TRUE, processed |-> processed, failed |-> count - processed,
              total_matched |-> count, results |-> loop.results]]

\* the loop and what follows it, for a non-empty list of matching dicts
BulkRun(now, loop, operation, count, d) ==
    BulkReport(now, loop, operation, SuccessCount(loop.results), count, d)

\* the status filter of _filter_actions: approve and reject default it to
\* "proposed"
BulkFilter(operation, status) ==
    IF status = <<>> /\ operation \in {"approve", "reject"} THEN <<"proposed">> ELSE status

\* the body of _tool_bulk_action given the list of matching dicts
BulkOver(S, store, operation, matching, d) ==
    IF matching = <<>>
    THEN [S |-> S,
          ret |-> [success |-> TRUE, processed |-> 0, failed |-> 0,
                   total_matched |-> 0, results |-> <<>>]]
    ELSE BulkRun(S.now, BulkLoop(S, store, operation, matching, <<>>, d),
                 operation, Len(matching), d)

\* _tool_bulk_action(args, context) for a valid operation; of the filters of
\* _filter_actions the status filter is modelled, <<>> when it is not given
_tool_bulk_action(S, store, operation, status, d) ==
    BulkOver(S, store, operation,
             get_all_actions(S.actions, store, BulkFilter(operation, status)), d)

BulkOperations == {"execute", "approve", "reject"}

StatusFilters == {<<>>, <<"proposed">>, <<"approved">>}

\* POST /agent/execute
AgentExecute ==
    /\ \E id \in ActionIds :
         LET r == agent_execute(State, action_store, id, "user", disk)
         IN  /\ Commit(r.S)
             /\ lastCall' = Call("agent_execute", id, <<>>, r.ret)
    /\ UNCHANGED <<action_store, disk, pc, frame, clock, audit_lock, alertVars>>

\* the copilot calls its execute_action tool
ToolExecuteAction ==
    /\ Len(audit_log) < MaxTrail
    /\ \E id \in ActionIds :
         LET r == _tool_execute_action(State, action_store, id, disk)
         IN  /\ Commit(r.S)
             /\ lastCall' = Call("_tool_execute_action", id, <<>>, r.ret)
    /\ UNCHANGED <<action_store, disk, pc, frame, clock, audit_lock, alertVars>>

\* the copilot calls its bulk_action tool
ToolBulkAction ==
    /\ Len(audit_log) < MaxTrail
    /\ \E operation \in BulkOperations, status \in StatusFilters :
         LET r == _tool_bulk_action(State, action_store, operation, status, disk)
         IN  /\ Commit(r.S)
             /\ lastCall' = Call("_tool_bulk_action", 0, <<operation, status>>, r.ret)
    /\ UNCHANGED <<action_store, disk, pc, frame, clock, audit_lock, alertVars>>

NextShortcuts ==
    \/ CreateAction
    \/ StoreActions
    \/ ApproveAction
    \/ AgentExecute
    \/ ToolExecuteAction
    \/ ToolBulkAction

SpecShortcuts == Init /\ [][NextShortcuts]_vars

\* the call is one of the three execute shortcuts
IsExecuteShortcut(call) ==
    \/ call.op \in {"agent_execute", "_tool_execute_action"}
    \/ call.op = "_tool_bulk_action" /\ call.ids[1] = "execute"

\* the stored dicts that are proposed and require approval
AwaitingApproval ==
    {a \in Created : /\ \E i \in 1..Len(action_store) : action_store[i].ref = a
                     /\ actions[a].status = "proposed"
                     /\ actions[a].requires_approval}

\* C32: no execute shortcut (the /agent/execute route, the copilot
\* execute_action tool, the copilot bulk execute operation) approves a
\* proposed action that requires approval: the action stays proposed, the
\* audit log gains no transition entry for it, and the call reports an error
\* or a skip for it.
C32_ShortcutsNeverApproveGated ==
    [][ IsExecuteShortcut(lastCall')
        => \A a \in AwaitingApproval :
              /\ actions'[a] = actions[a]
              /\ \A i \in 1..Len(audit_log') :
                    (/\ audit_log'[i].action_id = actions[a].action_id
                     /\ audit_log'[i].event \in ActionStatus)
                    => i <= Len(audit_log) /\ audit_log[i] = audit_log'[i]
              /\ (/\ lastCall'.op \in {"agent_execute", "_tool_execute_action"}
                  /\ lastCall'.id = actions[a].action_id)
                 => (/\ ~lastCall'.ret.success
                     /\ lastCall'.ret.error.kind = "requires_approval")
              /\ (/\ lastCall'.op = "_tool_bulk_action"
                  /\ lastCall'.ids[2] \in {<<>>, <<"proposed">>})
                 => \E k \in 1..Len(lastCall'.ret.results) :
                       /\ lastCall'.ret.results[k].action_id = actions[a].action_id
                       /\ lastCall'.ret.results[k].result
                             = "Skipped (requires human approval)" ]_vars

\* a bulk execute has just skipped an action that requires approval and
\* executed another one
C32_Witness ==
    /\ lastCall.op = "_tool_bulk_action"
    /\ lastCall.ids[1] = "execute"
    /\ \E k, l \in 1..Len(lastCall.ret.results) :
          /\ lastCall.ret.results[k].result = "Skipped (requires human approval)"
          /\ lastCall.ret.results[l].result = "Executed"
    /\ \E a \in Created : actions[a].status = "proposed" /\ actions[a].requires_approval


---------------------------------------------------------------------------
(* Claims on the approval policy, continued                                *)

\* C33: an adjust_par action created from a payload without par_change_pct
\* requires approval.
C33_MissingParChangeNeedsApproval ==
    \A a \in Created :
        (actions[a].action_type = "adjust_par"
         /\ "par_change_pct" \notin DOMAIN actions[a].payload)
        => actions[a].requires_approval

\* create_action has just built an adjust_par action from a payload that
\* names a quantity only
C33_Witness ==
    /\ lastCall.op = "create_action"
    /\ ~lastCall.ret.raised
    /\ lastCall.ret.asked = "adjust_par"
    /\ actions[lastCall.id].payload = [quantity |-> 50]
    /\ actions[lastCall.id].requires_approval


---------------------------------------------------------------------------
(* Claims on the alert filter when the history file cannot be written      *)

\* C34: when the write of the history file at the end of a call failed (the
\* disk takes no writes), the next call still honours the record that call
\* made: an event identical to the one last admitted for its item, less
\* than 24h later, is suppressed.
C34_UnsavedRecordStillHonoured ==
    [][ (/\ lastCall.op = "filter_eligible_alerts"
         /\ IsFilterCall(lastCall')
         /\ disk = "readonly"
         /\ lastCall'.now - lastCall.now < COOLDOWN_SECONDS)
        => \A item \in Items :
              LET made == OfItem(lastCall.ret, item)
              IN  made # <<>>
                  => \A k \in 1..Len(lastCall'.ret) :
                        lastCall'.ret[k] # made[Len(made)] ]_vars


---------------------------------------------------------------------------
(* The audit log on a disk that fails: between calls the disk changes      *)
(* state and the log file may be left unparseable (a write cut short).     *)
(* lastCall.op names the last step, calls and changes of the environment.  *)

AuditDiskChanges ==
    /\ \E d \in DiskStates \ {disk} : disk' = d
    /\ lastCall' = [lastCall EXCEPT !.op = "disk_changes"]
    /\ UNCHANGED <<actions, action_store, audit_log, log_file, pc, frame, clock,
                   audit_lock, alertVars>>

AuditFileCorrupted ==
    /\ log_file.exists
    /\ log_file.readable
    /\ log_file' = [exists |-> TRUE, readable |-> FALSE, data |-> <<>>]
    /\ lastCall' = [lastCall EXCEPT !.op = "file_corrupted"]
    /\ UNCHANGED <<actions, action_store, audit_log, disk, pc, frame, clock,
                   audit_lock, alertVars>>

NextAuditFaults ==
    \/ Tick
    \/ RecordProposed
    \/ GetLog
    \/ AuditDiskChanges
    \/ AuditFileCorrupted

SpecAuditFaults == InitConc /\ [][NextAuditFaults]_vars

---------------------------------------------------------------------------
(* Claims on the audit log when its file cannot be written or read         *)

\* entry e is among the entries of log
Among(e, log) == \E i \in 1..Len(log) : log[i] = e

\* C35: an entry returned by audit.record whose write to the log file
\* failed (the disk takes no writes, the file if any can be read) is still
\* returned by the get_log that follows (no filter, a limit that covers the
\* log).
C35_UnsavedEntryStillRetrievable ==
    [][ (/\ lastCall.op = "record"
         /\ lastCall'.op = "get_log"
         /\ disk = "readonly"
         /\ log_file.readable
         /\ lastCall'.ids[2] = <<>>
         /\ lastCall'.ids[3] = <<>>
         /\ Len(audit_log) <= lastCall'.ids[1])
        => Among(lastCall.ret, lastCall'.ret) ]_vars

\* the log file cannot be read or parsed
LogUnreadable == log_file.exists /\ (disk = "down" \/ ~log_file.readable)

\* C36: when the log file cannot be read or parsed, audit.record returns
\* its entry and the log in memory consists of exactly that entry
\* afterwards.
C36_UnreadableLogStartsAfresh ==
    [][ (lastCall'.op = "record" /\ LogUnreadable)
        => /\ Len(audit_log') = 1
           /\ Serialise(audit_log'[1], actions') = lastCall'.ret
           /\ lastCall'.ret.event = "proposed" ]_vars

\* record has just run on an unreadable file with entries in memory, and
\* left one entry
C36_Witness ==
    /\ lastCall.op = "record"
    /\ Len(audit_log) = 1
    /\ ~log_file.readable
    /\ disk = "readonly"


---------------------------------------------------------------------------
(* The action queue as the routes read it: actions are created at          *)
(* different times, stored in any order, approved, and listed with         *)
(* get_all_actions.                                                        *)

\* ?status= of GET /agent/actions: absent, empty, or a status
QueueFilters == {<<>>, <<"">>, <<"proposed">>, <<"approved">>}

\* GET /agent/actions, copilot._filter_actions: get_all_actions(status_filter)
GetAllActions ==
    /\ \E status_filter \in QueueFilters :
         lastCall' = Call("get_all_actions", 0, status_filter,
                          [actions |-> get_all_actions(actions, action_store,
                                                       status_filter)])
    /\ UNCHANGED <<actions, action_store, audit_log, log_file, disk, pc, frame,
                   clock, audit_lock, alertVars>>

NextQueue ==
    \/ Tick
    \/ CreateAction
    \/ StoreActions
    \/ ApproveAction
    \/ GetAllActions

SpecQueue == Init /\ [][NextQueue]_vars

\* the filter of a get_all_actions call lets the dict through
Listed(status_filter, a) ==
    status_filter = <<>> \/ status_filter[1] = "" \/ actions[a].status = status_filter[1]

\* C37: get_all_actions returns every stored action that passes the status
\* filter exactly once and no other, newest created_at first, and changes
\* neither the store nor the audit log.
C37_ListsStoredNewestFirst ==
    [][ lastCall'.op = "get_all_actions"
        => LET ret == lastCall'.ret.actions
           IN  /\ \A i \in 1..Len(action_store) :
                     Count(ret, action_store[i].ref)
                        = IF Listed(lastCall'.ids, action_store[i].ref) THEN 1 ELSE 0
               /\ \A k \in 1..Len(ret) :
                     \E i \in 1..Len(action_store) : action_store[i].ref = ret[k]
               /\ \A k, l \in 1..Len(ret) :
                     k < l => actions[ret[k]].created_at >= actions[ret[l]].created_at
               /\ UNCHANGED <<actions, action_store, audit_log, log_file>> ]_vars

\* get_all_actions has just listed two stored actions created at different
\* times, the one stored second first
C37_Witness ==
    /\ lastCall.op = "get_all_actions"
    /\ Len(lastCall.ret.actions) = 2
    /\ lastCall.ret.actions[1] = action_store[2].ref
    /\ actions[lastCall.ret.actions[1]].created_at
          > actions[lastCall.ret.actions[2]].created_at


---------------------------------------------------------------------------
(* Claims on reading the audit log                                         *)

\* the log as the /agent/history route reads it: the planner records
\* proposals, a user approves, time passes, and a reader calls get_log
NextLogReads ==
    \/ Tick
    \/ RecordProposed
    \/ ApproveAction
    \/ GetLog

SpecLogReads == InitConc /\ [][NextLogReads]_vars

\* entry e passes the filters of a get_log call
PassesFilters(e, action_id, event_filter) ==
    /\ action_id # <<>> => e.action_id = action_id[1]
    /\ event_filter # <<>> => e.event = event_filter[1]

---------------------------------------------------------------------------
(* models.py: prioritize_actions, the ordering of a plan.  The planner     *)
(* hands it lists of action dicts of any risk level and creation time; the *)
(* call is a function of the list, so the specification draws the dicts in *)
(* Init and the list in the action.                                        *)

MaxPlan == 3         \* action dicts on the heap, and longest list to prioritize

\* created_at values of the dicts
PlanTimes == {0, 1}

\* _RISK_PRIORITY.get(risk_level, 9)
_RISK_PRIORITY(risk_level) ==
    CASE risk_level = "high"   -> 0
      [] risk_level = "medium" -> 1
      [] risk_level = "low"    -> 2
      [] OTHER                 -> 9

\* the sort key of a dict compares below or equal to that of another:
\* tuples (priority, created_at) in lexicographic order
KeyAtMost(a, b) ==
    \/ _RISK_PRIORITY(a.risk_level) < _RISK_PRIORITY(b.risk_level)
    \/ /\ _RISK_PRIORITY(a.risk_level) = _RISK_PRIORITY(b.risk_level)
       /\ a.created_at <= b.created_at

\* sorted(): stable, a dict goes behind those whose key is not above its own
RECURSIVE InsertByKey(_, _, _)
InsertByKey(heap, sorted, a) ==
    IF sorted = <<>> THEN <<a>>
    ELSE IF KeyAtMost(heap[Head(sorted)], heap[a])
         THEN <<Head(sorted)>> \o InsertByKey(heap, Tail(sorted), a)
         ELSE <<a>> \o sorted

RECURSIVE SortByKey(_, _)
SortByKey(heap, refs) ==
    IF refs = <<>> THEN <<>>
    ELSE InsertByKey(heap, SortByKey(heap, SubSeq(refs, 1, Len(refs) - 1)), refs[Len(refs)])

\* prioritize_actions that orders by risk level only
prioritize_actions_by_risk(heap, refs) ==
    LET flat == [i \in 1..Len(heap) |-> [heap[i] EXCEPT !.created_at = 0]]
    IN  [actions |-> refs, ret |-> SortByKey(flat, refs)]

\* prioritize_actions(actions): the list handed in, as it is after the call,
\* and the new list returned
prioritize_actions(heap, refs) ==
    [actions |-> refs, ret |-> SortByKey(heap, refs)]

\* lists of distinct dicts, as a plan holds them
PlanLists ==
    {l \in ListsUpTo(Created, MaxPlan) : \A k, m \in 1..Len(l) : l[k] = l[m] => k = m}

InitPlan ==
    /\ \E risk \in [1..MaxPlan -> RiskLevel], at \in [1..MaxPlan -> PlanTimes] :
         actions = [i \in 1..MaxPlan |->
                       create_action(i, "create_task", [quantity |-> 1], "Kitchen",
                                     risk[i], at[i])]
    /\ action_store = <<>>
    /\ audit_log = <<>>
    /\ log_file = NoFile
    /\ disk = "ok"
    /\ lastCall = Call("init", 0, <<>>, [given |-> <<>>, sorted |-> <<>>])
    /\ pc = [t \in Threads |-> "idle"]
    /\ frame = [t \in Threads |-> IdleFrame(<<>>)]
    /\ clock = 1
    /\ audit_lock = "free"
    /\ alert_history = <<>>
    /\ history_file = NoFile

\* planner.generate_plan / _fallback_plan: actions = prioritize_actions(actions)
Prioritize ==
    /\ \E given \in PlanLists :
         LET r == prioritize_actions(actions, given)
         IN  lastCall' = Call("prioritize_actions", 0, r.actions,
                              [given |-> given, sorted |-> r.ret])
    /\ UNCHANGED <<actions, action_store, audit_log, log_file, disk, pc, frame,
                   clock, audit_lock, alertVars>>

SpecPlan == InitPlan /\ [][Prioritize]_vars

\* high before medium before low
RiskRank(risk_level) ==
    CASE risk_level = "high" -> 1 [] risk_level = "medium" -> 2 [] risk_level = "low" -> 3

\* position of x in a list of distinct elements
IndexOf(seq, x) == CHOOSE k \in 1..Len(seq) : seq[k] = x

\* C39: prioritize_actions returns a permutation of its input, ordered by
\* risk level (high, medium, low) and within a risk level by created_at
\* ascending; actions equal in both keep their input order; the input list is
\* as it was.
C39_PrioritizeSortsStably ==
    [][ lastCall'.op = "prioritize_actions"
        => LET given == lastCall'.ret.given
               sorted == lastCall'.ret.sorted
           IN  /\ Len(sorted) = Len(given)
               /\ \A k \in 1..Len(given) : Count(sorted, given[k]) = 1
               /\ \A k, l \in 1..Len(sorted) :
                     k < l =>
                       LET a == actions[sorted[k]]
                           b == actions[sorted[l]]
                       IN  /\ RiskRank(a.risk_level) <= RiskRank(b.risk_level)
                           /\ a.risk_level = b.risk_level => a.created_at <= b.created_at
                           /\ (a.risk_level = b.risk_level /\ a.created_at = b.created_at)
                              => IndexOf(given, sorted[k]) < IndexOf(given, sorted[l])
               /\ lastCall'.ids = given
               /\ actions' = actions ]_vars

\* a list of three has just been prioritized: a low-risk action given first
\* went last, and of two high-risk actions the older, given later, went first
C39_Witness ==
    /\ lastCall.op = "prioritize_actions"
    /\ Len(lastCall.ret.given) = 3
    /\ actions[lastCall.ret.given[1]].risk_level = "low"
    /\ lastCall.ret.sorted[3] = lastCall.ret.given[1]
    /\ lastCall.ret.sorted[1] = lastCall.ret.given[3]
    /\ actions[lastCall.ret.sorted[1]].risk_level = "high"
    /\ actions[lastCall.ret.sorted[2]].risk_level = "high"
    /\ actions[lastCall.ret.sorted[1]].created_at < actions[lastCall.ret.sorted[2]].created_at

===========================================================================
